---- MODULE Spec2Model ----
(***************************************************************************)
(* Repository synchronization and context-cache coherence of promptly.     *)
(*                                                                         *)
(*   src/src/repoWatcher.ts   the synchronization loop (startWatching)     *)
(*   src/src/server.ts        cache refresh, expiry recovery, sessions     *)
(*   src/src/gitRunner.ts     the supervised git subprocess                *)
(*                                                                         *)
(* The runtime is single threaded: a step of the model is what runs        *)
(* between two waits on I/O (a git subprocess, a provider call, a timer).  *)
(* Continuations chained by await without an I/O wait in between run in    *)
(* one drain of the microtask queue and are one step.                      *)
(***************************************************************************)
EXTENDS Naturals, Integers, Sequences, FiniteSets, TLC

\* ------------------------------------------------------------------ bounds
MaxTicks == 2        \* firings of the watcher's interval timer
MaxCommit == 2       \* commits pushed upstream per repository
MaxBuffer == 2       \* options.maxBufferBytes of the supervised command
MaxChunk == 2        \* largest chunk a data event delivers
NReq == 2            \* chat requests served
IdWindow == 2        \* identifier derivations kept side by side
MaxOps == 2          \* add, remove and edit requests served

\* ------------------------------------------------------------ the projects
\* The project ids a configuration can hold.
Proj == {"p1", "p2"}

\* project.accessToken: p1 was registered with a token, p2 without.
HasToken(p) == p = "p1"

Steps == {"rewrite", "fetch", "revHead", "revOrigin", "pullRewrite", "pull"}
PullOutcomes == {"ok", "mergeFail", "netFail"}

VARIABLES
    order,        \* the keys of the project map, in insertion order
    projects,     \* projectId -> the fields of Project the core reads and writes
    repo,         \* projectId -> commits: local HEAD, origin/<branch>, upstream tip
    isRunning,    \* startWatching's single-flight flag
    fired,        \* how many times the interval timer has fired
    ticks,        \* firing number -> that invocation of the interval callback
    hist,         \* observation of the most recently started tick
    chatSessions, \* composite key -> SessionData (oid 0: no entry under the key)
    turns,        \* chat request -> where its handler stands
    nextHandle,   \* name of the next cache the provider creates
    nextSession,  \* identity of the next SessionData object
    marks,        \* projectId -> stale marks since the last cache install
    run,          \* the closure of one runGitCommand call
    child,        \* the ChildProcess it spawned
    activeGitProcesses,  \* gitRunner's set of supervised children
    clock,        \* the wall clock in hours, and the sweeps of cleanupOldSessions so far
    idCalls,      \* the latest derivations of a project identifier
    config,       \* the entries of projects.json, in file order
    registry,     \* the in-memory project map as the Project objects it holds
    checkouts,    \* the project ids whose checkout directory exists
    sessionKeys,  \* the composite keys present in chatSessions
    ops,          \* request -> where its add, remove or edit handler stands
    boot          \* how far startServer has come

reqVars == <<chatSessions, turns, nextHandle, nextSession>>
gitVars == <<run, child, activeGitProcesses, clock>>
mainVars == <<order, projects, repo, isRunning, fired, ticks, hist,
              chatSessions, turns, nextHandle, nextSession, marks>>
vars == <<order, projects, repo, isRunning, fired, ticks, hist,
          chatSessions, turns, nextHandle, nextSession, marks,
          run, child, activeGitProcesses, clock, idCalls,
          config, registry, checkouts, sessionKeys, ops, boot>>
storeVars == <<config, registry, checkouts, sessionKeys, ops, boot>>
regVars == <<idCalls, config, registry, checkouts, sessionKeys, ops, boot>>

IdleTick == [status |-> "unfired", idx |-> 0, stage |-> "none", localCommit |-> 0]
NoHist == [tick |-> 0, failed |-> [p \in Proj |-> {}], wrote |-> {},
           visited |-> {}, pullTried |-> {}, retry |-> {}]

\* ------------------------------------------------------ repository watcher

\* repoWatcher.ts:97 the guard of the interval callback.
TickMayStart_Overlap(running) == TRUE
TickMayStart(running) == ~running

\* repoWatcher.ts:9 setAuthenticatedRemote returns at once without a token.
Begin(p) == IF HasToken(p) THEN "rewrite" ELSE "fetch"
BeginPull_NoRewrite(p) == "pull"
BeginPull(p) == IF HasToken(p) THEN "pullRewrite" ELSE "pull"

\* repoWatcher.ts:49
HasUpdates(localCommit, remoteCommit) == localCommit # remoteCommit

\* git fetch origin: the remote-tracking ref moves to the upstream tip.
FetchEffect(r, ok) == IF ok THEN [r EXCEPT !.origin = r.upstream] ELSE r

\* git pull origin <branch>: fetch, then merge into the checkout. A pull that
\* fails in the merge (or is killed by the timeout) has fetched already.
PullEffect(r, out) ==
    CASE out = "ok"        -> [r EXCEPT !.origin = r.upstream, !.head = r.upstream]
      [] out = "mergeFail" -> [r EXCEPT !.origin = r.upstream]
      [] OTHER             -> r

\* pullUpdates (repoWatcher.ts:60-81) and the caller's marking (112-118):
\* the fields of the project after the pull has settled.
AfterPull_Eager(proj, ok, now) == [proj EXCEPT !.lastUpdated = now, !.cacheStale = ok \/ @]
AfterPull_Refresh(proj, ok, now) ==
    IF ok THEN [proj EXCEPT !.lastUpdated = now, !.cacheStale = FALSE,
                            !.cachedContent = @ + 100]
    ELSE proj
AfterPull(proj, ok, now) ==
    IF ok THEN [proj EXCEPT !.lastUpdated = now, !.cacheStale = TRUE] ELSE proj

\* projects.get(projectId) finds an entry (server.ts:507-510).
InMap(pid) == \E i \in 1..Len(order) : order[i] = pid

CurProj(k) == order[ticks[k].idx]

\* The for-loop moves to the next map entry; after the last one the finally
\* block clears isRunning (repoWatcher.ts:105, 124-128).
NextProject(t) ==
    IF t.idx < Len(order)
    THEN [t EXCEPT !.idx = @ + 1, !.stage = Begin(order[t.idx + 1]), !.localCommit = 0]
    ELSE [status |-> "done", idx |-> 0, stage |-> "none", localCommit |-> 0]

\* A rejected git command inside checkForUpdates / pullUpdates is caught
\* there (repoWatcher.ts:50-53, 77-80): the loop goes on with the next entry.
AfterFailure_Abort(t) == [status |-> "done", idx |-> 0, stage |-> "none", localCommit |-> 0]
AfterFailure(t) == NextProject(t)

SetTick(k, t) ==
    /\ ticks' = [ticks EXCEPT ![k] = t]
    /\ isRunning' = IF t.status = "done" THEN FALSE ELSE isRunning

AtStage(k, s) == ticks[k].status = "running" /\ ticks[k].stage = s

\* setInterval callback (repoWatcher.ts:96-104): skipped while a tick runs.
TimerFires ==
    /\ fired < MaxTicks
    /\ fired' = fired + 1
    /\ IF TickMayStart(isRunning)
       THEN /\ isRunning' = TRUE
            /\ ticks' = [ticks EXCEPT ![fired + 1] =
                   [status |-> "running", idx |-> 1, stage |-> Begin(order[1]),
                    localCommit |-> 0]]
       ELSE /\ ticks' = [ticks EXCEPT ![fired + 1] = [IdleTick EXCEPT !.status = "skipped"]]
            /\ UNCHANGED isRunning
    /\ UNCHANGED <<order, projects, repo, reqVars, marks>>

\* setAuthenticatedRemote inside checkForUpdates (repoWatcher.ts:8-21, 30):
\* a failure is logged and the fetch follows all the same.
Rewrite(k, ok) ==
    /\ AtStage(k, "rewrite")
    /\ SetTick(k, [ticks[k] EXCEPT !.stage = "fetch"])
    /\ UNCHANGED <<order, projects, repo, fired, reqVars, marks>>

\* git fetch origin (repoWatcher.ts:33-36).
Fetch(k, ok) ==
    /\ AtStage(k, "fetch")
    /\ repo' = [repo EXCEPT ![CurProj(k)] = FetchEffect(@, ok)]
    /\ SetTick(k, IF ok THEN [ticks[k] EXCEPT !.stage = "revHead"]
                  ELSE AfterFailure(ticks[k]))
    /\ UNCHANGED <<order, projects, fired, reqVars, marks>>

\* git rev-parse HEAD (repoWatcher.ts:39-41).
RevParseHead(k, ok) ==
    /\ AtStage(k, "revHead")
    /\ SetTick(k, IF ok THEN [ticks[k] EXCEPT !.stage = "revOrigin",
                                              !.localCommit = repo[CurProj(k)].head]
                  ELSE AfterFailure(ticks[k]))
    /\ UNCHANGED <<order, projects, repo, fired, reqVars, marks>>

\* git rev-parse origin/<branch> and the comparison (repoWatcher.ts:44-49,
\* 107-112).
RevParseOrigin(k, ok) ==
    /\ AtStage(k, "revOrigin")
    /\ SetTick(k, IF ~ok THEN AfterFailure(ticks[k])
                  ELSE IF HasUpdates(ticks[k].localCommit, repo[CurProj(k)].origin)
                       THEN [ticks[k] EXCEPT !.stage = BeginPull(CurProj(k)),
                                             !.localCommit = 0]
                       ELSE NextProject(ticks[k]))
    /\ UNCHANGED <<order, projects, repo, fired, reqVars, marks>>

\* setAuthenticatedRemote inside pullUpdates (repoWatcher.ts:65).
PullRewrite(k, ok) ==
    /\ AtStage(k, "pullRewrite")
    /\ SetTick(k, [ticks[k] EXCEPT !.stage = "pull"])
    /\ UNCHANGED <<order, projects, repo, fired, reqVars, marks>>

\* git pull origin <branch>, lastUpdated and the stale mark
\* (repoWatcher.ts:67-76, 112-118).
Pull(k, out) ==
    /\ AtStage(k, "pull")
    /\ repo' = [repo EXCEPT ![CurProj(k)] = PullEffect(@, out)]
    /\ projects' = [projects EXCEPT ![CurProj(k)] = AfterPull(@, out = "ok", k)]
    /\ SetTick(k, IF out = "ok" THEN NextProject(ticks[k]) ELSE AfterFailure(ticks[k]))
    /\ marks' = [marks EXCEPT ![CurProj(k)] = IF out = "ok" THEN @ + 1 ELSE @]
    /\ UNCHANGED <<order, fired, reqVars>>

\* Somebody pushes to the upstream repository.
UpstreamPush(p) ==
    /\ repo[p].upstream < MaxCommit
    /\ repo' = [repo EXCEPT ![p].upstream = @ + 1]
    /\ UNCHANGED <<order, projects, isRunning, fired, ticks, reqVars, marks>>

\* ---------------------------------------------- observation of a tick
\* What the tick that started last has done so far: the git steps that
\* failed per project, the projects whose fields it wrote, the projects it
\* is through with, those it tried to pull, and (retry) the projects whose
\* pull failed in the tick before it.
RecordStart ==
    hist' = IF ticks'[fired + 1].status = "running"
            THEN [NoHist EXCEPT !.tick = fired + 1,
                     !.retry = {p \in Proj : "pull" \in hist.failed[p]}]
            ELSE hist

Record(k, step, ok) ==
    LET p == CurProj(k) IN
    hist' = [hist EXCEPT
        !.failed[p] = IF ok THEN @ ELSE @ \cup {step},
        !.wrote = IF projects'[p] # projects[p] THEN @ \cup {p} ELSE @,
        !.visited = IF ticks'[k].status # "running" \/ ticks'[k].idx # ticks[k].idx
                    THEN @ \cup {p} ELSE @,
        !.pullTried = IF step = "pull" THEN @ \cup {p} ELSE @]

SyncTimerFires == TimerFires /\ RecordStart /\ UNCHANGED <<gitVars, regVars>>
SyncRewrite == \E k \in 1..MaxTicks, ok \in BOOLEAN :
    Rewrite(k, ok) /\ Record(k, "rewrite", ok) /\ UNCHANGED <<gitVars, regVars>>
SyncFetch == \E k \in 1..MaxTicks, ok \in BOOLEAN :
    Fetch(k, ok) /\ Record(k, "fetch", ok) /\ UNCHANGED <<gitVars, regVars>>
SyncRevParseHead ==
    \E k \in 1..MaxTicks, ok \in BOOLEAN :
    RevParseHead(k, ok) /\ Record(k, "revHead", ok) /\ UNCHANGED <<gitVars, regVars>>
SyncRevParseOrigin ==
    \E k \in 1..MaxTicks, ok \in BOOLEAN :
    RevParseOrigin(k, ok) /\ Record(k, "revOrigin", ok) /\ UNCHANGED <<gitVars, regVars>>
SyncPullRewrite ==
    \E k \in 1..MaxTicks, ok \in BOOLEAN :
    PullRewrite(k, ok) /\ Record(k, "pullRewrite", ok) /\ UNCHANGED <<gitVars, regVars>>
SyncPull ==
    \E k \in 1..MaxTicks, out \in PullOutcomes :
    Pull(k, out) /\ Record(k, "pull", out = "ok") /\ UNCHANGED <<gitVars, regVars>>
SyncPush == \E p \in Proj : InMap(p) /\ UpstreamPush(p) /\ UNCHANGED <<hist, gitVars, regVars>>

\* ------------------------------------------- cache and session registry
Clients == {"s1"}
Modes == {"enhance", "ask"}
Keys == Clients \X Proj \X Modes
Reqs == 1..NReq

NoError == [status |-> 0, msg |-> "none"]
SendOk == [status |-> 200, msg |-> "ok"]
NoSession == [oid |-> 0, handle |-> 0, history |-> <<>>, lastUsed |-> 0]
NewTurn == [pc |-> "new", sid |-> "s1", pid |-> "p1", mode |-> "enhance",
            attempt |-> 0, oid |-> 0, cur |-> 0, sends |-> 0, creates |-> 0,
            createsGet |-> 0, rebuilds |-> 0, cleared |-> 0, marked |-> 0,
            h0 |-> 0, result |-> 0, error |-> NoError, src |-> 0]

\* What sendMessage can reject with: an HTTP status and the message text.
Errors == {[status |-> 403, msg |-> "CachedContent not found"],
           [status |-> 403, msg |-> "permission denied"],
           [status |-> 403, msg |-> "quota"],
           [status |-> 500, msg |-> "CachedContent not found"]}
NotFound == [status |-> 404, msg |-> "Project not found"]
CreateFailed == [status |-> 429, msg |-> "cache create failed"]
NoCache == [status |-> 500, msg |-> "No cached content available"]

\* isCacheExpiredError (server.ts:418-441).
IsCacheExpiredError_StatusOnly(e) == e.status = 403
IsCacheExpiredError(e) ==
    /\ e.status = 403
    /\ e.msg \in {"CachedContent not found", "permission denied"}

\* sendMessageWithRetry (server.ts:480-497): only the first send sits in the
\* try block; the retried send's rejection leaves the function.
RetryOnError_Always(attempt, e) == IsCacheExpiredError(e)
RetryOnError(attempt, e) == attempt = 1 /\ IsCacheExpiredError(e)

\* refreshCacheIfStale (server.ts:398-400): the new cache is installed.
RefreshInstall_KeepStale(proj, h) == [proj EXCEPT !.cachedContent = h]
RefreshInstall(proj, h) == [proj EXCEPT !.cachedContent = h, !.cacheStale = FALSE]

\* handleCacheExpiration (server.ts:455-457).
ExpiryInstall_KeepStale(proj, h) == [proj EXCEPT !.cachedContent = h]
ExpiryInstall_ClearOnly(proj, h) == [proj EXCEPT !.cacheStale = FALSE]
ExpiryInstall(proj, h) == [proj EXCEPT !.cachedContent = h, !.cacheStale = FALSE]

\* handleCacheExpiration (server.ts:460-466): every key holding
\* ":projectId:" goes; project ids are fixed-width hashes, so that is the
\* keys whose project component is projectId.
ClearProjectSessions_OwnKey(s, pid, own) ==
    [key \in Keys |-> IF key = own THEN NoSession ELSE s[key]]
ClearProjectSessions(s, pid, own) ==
    [key \in Keys |-> IF key[2] = pid THEN NoSession ELSE s[key]]

ClearedCount(s, pid) == Cardinality({key \in Keys : key[2] = pid /\ s[key].oid # 0})

TurnKey(t) == <<t.sid, t.pid, t.mode>>

\* getChatSession after the refresh (server.ts:515-549): get or create the
\* session under the key, then the handler sends the message through it.
GetOrCreate_Always(r, t, projs, sess) ==
    LET key == TurnKey(t)
        sess2 == [sess EXCEPT ![key] = [oid |-> nextSession,
                                        handle |-> projs[t.pid].cachedContent,
                                        history |-> <<>>, lastUsed |-> clock.now]]
    IN  /\ chatSessions' = sess2
        /\ nextSession' = nextSession + 1
        /\ turns' = [turns EXCEPT ![r] =
               [t EXCEPT !.pc = "sending", !.cur = sess2[key].oid,
                         !.oid = IF t.attempt = 1 THEN sess2[key].oid ELSE @,
                         !.sends = @ + 1]]
GetOrCreate(r, t, projs, sess) ==
    LET key == TurnKey(t)
        fresh == sess[key].oid = 0
        sess2 == IF fresh
                 THEN [sess EXCEPT ![key] = [oid |-> nextSession,
                                             handle |-> projs[t.pid].cachedContent,
                                             history |-> <<>>, lastUsed |-> clock.now]]
                 ELSE [sess EXCEPT ![key].lastUsed = clock.now]
    IN  IF fresh /\ projs[t.pid].cachedContent = 0
        THEN /\ chatSessions' = sess
             /\ nextSession' = nextSession
             /\ turns' = [turns EXCEPT ![r] = [t EXCEPT !.pc = "failed", !.error = NoCache]]
        ELSE /\ chatSessions' = sess2
             /\ nextSession' = IF fresh THEN nextSession + 1 ELSE nextSession
             /\ turns' = [turns EXCEPT ![r] =
                    [t EXCEPT !.pc = "sending", !.cur = sess2[key].oid,
                              !.oid = IF t.attempt = 1 THEN sess2[key].oid ELSE @,
                              !.sends = @ + 1]]

\* getChatSession from its entry (server.ts:503-513): a stale cache is
\* rebuilt first, and the handler waits for the provider.
EnterGetChat(r, t, projs, sess) ==
    IF projs[t.pid].cacheStale
    THEN /\ turns' = [turns EXCEPT ![r] =
                [t EXCEPT !.pc = "refreshing", !.src = repo[t.pid].head,
                          !.creates = IF t.attempt = 1 THEN @ ELSE @ + 1,
                          !.createsGet = IF t.attempt = 1 THEN @ + 1 ELSE @]]
         /\ chatSessions' = sess
         /\ nextSession' = nextSession
    ELSE GetOrCreate(r, t, projs, sess)

\* A chat route (server.ts:1417-1441 and its five siblings) is entered:
\* getChatSession, then sendMessageWithRetry.
StartTurn(r, sid, pid, mode) ==
    /\ turns[r].pc = "new"
    /\ \A q \in Reqs : q < r => turns[q].pc # "new"
    /\ IF InMap(pid)
       THEN EnterGetChat(r, [NewTurn EXCEPT !.sid = sid, !.pid = pid, !.mode = mode,
                                            !.attempt = 1, !.marked = marks[pid],
                                            !.h0 = projects[pid].cachedContent],
                         projects, chatSessions)
       ELSE /\ turns' = [turns EXCEPT ![r] =
                   [NewTurn EXCEPT !.sid = sid, !.pid = pid, !.mode = mode,
                                   !.pc = "failed", !.error = NotFound]]
            /\ UNCHANGED <<chatSessions, nextSession>>
    /\ UNCHANGED <<order, projects, repo, isRunning, fired, ticks, hist, nextHandle, marks>>

\* The session map after refreshCacheIfStale (server.ts:393-406), which
\* has no statement on chatSessions.
SessionsAfterRefresh_Cleared(sess, pid) == [key \in Keys |-> IF key[2] = pid THEN NoSession ELSE sess[key]]
SessionsAfterRefresh(sess, pid) == sess

\* The handle a rebuild that has settled writes to the project
\* (server.ts:398-400, 455-457): unconditionally the one it created.
InstalledHandle_IfStillStale(proj, h) == IF proj.cacheStale THEN h ELSE proj.cachedContent
InstalledHandle(proj, h) == h

\* createCachedContent awaited by refreshCacheIfStale settles
\* (server.ts:398-405); a rejection leaves getChatSession.
RefreshDone(r, ok) ==
    /\ turns[r].pc = "refreshing"
    /\ IF ok
       THEN /\ projects' = [projects EXCEPT ![turns[r].pid] =
                   [RefreshInstall(@, InstalledHandle(@, nextHandle))
                       EXCEPT !.cacheSource = turns[r].src]]
            /\ nextHandle' = nextHandle + 1
            /\ marks' = [marks EXCEPT ![turns[r].pid] = 0]
            /\ GetOrCreate(r, turns[r], projects',
                           SessionsAfterRefresh(chatSessions, turns[r].pid))
       ELSE /\ turns' = [turns EXCEPT ![r].pc = "failed", ![r].error = CreateFailed]
            /\ UNCHANGED <<projects, nextHandle, marks, chatSessions, nextSession>>
    /\ UNCHANGED <<order, repo, isRunning, fired, ticks, hist>>

\* The two transcript entries of a served turn, pushed onto the SessionData
\* the route handler holds (server.ts:1452-1456).
PushHistory_Replace(s, key, oid, r, text) ==
    IF s[key].oid = oid
    THEN [s EXCEPT ![key].history =
              <<[role |-> "user", message |-> r], [role |-> "model", message |-> text]>>]
    ELSE s
PushHistory(s, key, oid, r, text) ==
    IF s[key].oid = oid
    THEN [s EXCEPT ![key].history =
              @ \o <<[role |-> "user", message |-> r], [role |-> "model", message |-> text]>>]
    ELSE s

\* chat.sendMessage settles (server.ts:481-497, 1441-1456).
SendDone(r, out) ==
    LET t == turns[r] IN
    /\ t.pc = "sending"
    /\ IF out = SendOk
       THEN /\ turns' = [turns EXCEPT ![r].pc = "done", ![r].result = t.cur]
            /\ chatSessions' = PushHistory(chatSessions, TurnKey(t), t.oid, r, t.cur)
       ELSE /\ chatSessions' = chatSessions
            /\ turns' = [turns EXCEPT ![r] =
                   IF RetryOnError(t.attempt, out)
                   THEN [t EXCEPT !.pc = "expiryRebuild", !.attempt = @ + 1,
                                  !.src = repo[t.pid].head,
                                  !.creates = @ + 1, !.rebuilds = @ + 1,
                                  !.error = out]
                   ELSE [t EXCEPT !.pc = "failed", !.error = out]]
    /\ UNCHANGED <<order, projects, repo, isRunning, fired, ticks, hist, nextHandle,
                   nextSession, marks>>

\* createCachedContent awaited by handleCacheExpiration settles
\* (server.ts:455-468), then sendMessageWithRetry gets a session and sends
\* again (server.ts:490-491).
ExpiryRebuildDone(r, ok) ==
    LET t == turns[r] IN
    /\ t.pc = "expiryRebuild"
    /\ IF ok
       THEN /\ projects' = [projects EXCEPT ![t.pid] =
                   [ExpiryInstall(@, InstalledHandle(@, nextHandle))
                       EXCEPT !.cacheSource = t.src]]
            /\ nextHandle' = nextHandle + 1
            /\ marks' = [marks EXCEPT ![t.pid] = 0]
            /\ EnterGetChat(r, [t EXCEPT !.cleared = ClearedCount(chatSessions, t.pid)],
                            projects',
                            ClearProjectSessions(chatSessions, t.pid, TurnKey(t)))
       ELSE /\ turns' = [turns EXCEPT ![r].pc = "failed", ![r].error = CreateFailed]
            /\ UNCHANGED <<projects, nextHandle, marks, chatSessions, nextSession>>
    /\ UNCHANGED <<order, repo, isRunning, fired, ticks, hist>>

\* POST /cache/refresh is entered (server.ts:1749-1777): the sessions of
\* the project are cleared, then createCachedContent is awaited.
ForceRefreshStart(r, pid) ==
    /\ turns[r].pc = "new"
    /\ \A q \in Reqs : q < r => turns[q].pc # "new"
    /\ IF InMap(pid)
       THEN /\ turns' = [turns EXCEPT ![r] =
                   [NewTurn EXCEPT !.pid = pid, !.pc = "forceRebuild", !.creates = 1,
                                   !.cleared = ClearedCount(chatSessions, pid),
                                   !.marked = marks[pid],
                                   !.h0 = projects[pid].cachedContent,
                                   !.src = repo[pid].head]]
            /\ chatSessions' = ClearProjectSessions(chatSessions, pid, <<>>)
       ELSE /\ turns' = [turns EXCEPT ![r] =
                   [NewTurn EXCEPT !.pid = pid, !.pc = "failed", !.error = NotFound]]
            /\ chatSessions' = chatSessions
    /\ UNCHANGED <<order, projects, repo, isRunning, fired, ticks, hist, nextHandle,
                   nextSession, marks>>

\* The project once the cache awaited by POST /cache/refresh is there
\* (server.ts:1779-1780): the handle is replaced, the stale flag is not
\* touched.
ForceInstall(proj, h) == [proj EXCEPT !.cachedContent = h]

\* createCachedContent awaited by POST /cache/refresh settles
\* (server.ts:1779-1793).
ForceRefreshDone(r, ok) ==
    LET t == turns[r] IN
    /\ t.pc = "forceRebuild"
    /\ IF ok
       THEN /\ projects' = [projects EXCEPT ![t.pid] =
                   [ForceInstall(@, nextHandle) EXCEPT !.cacheSource = t.src]]
            /\ nextHandle' = nextHandle + 1
            /\ marks' = [marks EXCEPT ![t.pid] = 0]
            /\ turns' = [turns EXCEPT ![r].pc = "done", ![r].result = nextHandle]
       ELSE /\ turns' = [turns EXCEPT ![r].pc = "failed", ![r].error = CreateFailed]
            /\ UNCHANGED <<projects, nextHandle, marks>>
    /\ UNCHANGED <<order, repo, isRunning, fired, ticks, hist, chatSessions, nextSession>>

\* ------------------------------------------------- project identity
\* A git URL is a string, held as the sequence of its parts. The URLs a
\* caller can type are made of a transport, an optional userinfo, a host in
\* some letter case, an optional port, a path and an optional .git suffix.
Hosts == {"github.com", "GitHub.com"}
Paths == {"u/r", "v/s"}
Branches == {"main", "dev"}
Tokens == {"none", "t1", "t2"}
Userinfos == {"", "tok@"}
Forms == {"https", "ssh", "badport"}

MkUrl(form, user, host, path, dotGit) ==
    LET u == IF user = "" THEN <<>> ELSE <<user>>
        g == IF dotGit THEN <<".git">> ELSE <<>>
    IN  CASE form = "https"   -> <<"https://">> \o u \o <<host, "/", path>> \o g
          [] form = "badport" -> <<"https://">> \o u \o <<host, ":x", "/", path>> \o g
          [] OTHER            -> <<"git@", host, ":", path>> \o g

\* String.prototype.toLowerCase, part by part.
Lower(part) == IF part = "GitHub.com" THEN "github.com" ELSE part
LowerAll(str) == [i \in 1..Len(str) |-> Lower(str[i])]

\* String.prototype.startsWith.
StartsWith(str, prefix) == Len(str) >= 1 /\ str[1] = prefix

\* new URL(gitUrl): the parts of a URL that parses, or ok = FALSE where the
\* constructor throws (no scheme, no host, a port that is not a number).
\* The parser lower-cases the host of an http(s) URL.
ParseUrl(str) ==
    LET rest == IF Len(str) >= 1 THEN Tail(str) ELSE <<>>
        hasUser == Len(rest) >= 1 /\ rest[1] \in {"tok@", "git@"}
        auth == IF hasUser THEN Tail(rest) ELSE rest
        okHost == Len(auth) >= 1 /\ auth[1] \in Hosts
        badPort == Len(auth) >= 2 /\ auth[2] = ":x"
    IN  IF Len(str) >= 1 /\ str[1] \in {"https://", "http://"} /\ okHost /\ ~badPort
        THEN [ok |-> TRUE, protocol |-> str[1],
              username |-> IF hasUser THEN <<rest[1]>> ELSE <<>>,
              host |-> Lower(auth[1]),
              pathname |-> IF Len(auth) >= 2 THEN Tail(auth) ELSE <<"/">>]
        ELSE [ok |-> FALSE, protocol |-> "", username |-> <<>>, host |-> "",
              pathname |-> <<>>]

\* URL.prototype.toString.
UrlToString(u) == <<u.protocol>> \o u.username \o <<u.host>> \o u.pathname

\* cleanGitUrl (test-api.sh:95-111).
CleanGitUrl(gitUrl) ==
    IF StartsWith(gitUrl, "git@") THEN gitUrl
    ELSE LET u == ParseUrl(gitUrl) IN
         IF u.ok THEN UrlToString([u EXCEPT !.username = <<>>]) ELSE gitUrl

\* normalizeGitUrl (test-api.sh:118-132): the three replaces, then lower case.
StripDotGit(str) ==
    IF Len(str) >= 1 /\ str[Len(str)] = ".git" THEN SubSeq(str, 1, Len(str) - 1) ELSE str
SshToHttps(str) ==
    IF Len(str) >= 3 /\ str[1] = "git@" /\ str[3] = ":"
    THEN <<"https://", str[2], "/">> \o SubSeq(str, 4, Len(str))
    ELSE str
StripProtocol(str) ==
    IF StartsWith(str, "https://") \/ StartsWith(str, "http://") THEN Tail(str) ELSE str
NormalizeGitUrl_KeepSuffix(gitUrl) ==
    LowerAll(StripProtocol(SshToHttps(CleanGitUrl(gitUrl))))
NormalizeGitUrl(gitUrl) ==
    LowerAll(StripProtocol(SshToHttps(StripDotGit(CleanGitUrl(gitUrl)))))

\* generateProjectId (test-api.sh:139-143): the first 12 hex digits of the
\* SHA-256 of "<normalized>#<branch>", taken to be free of collisions.
GenerateProjectId(gitUrl, branch) == NormalizeGitUrl(gitUrl) \o <<"#", branch>>

\* The identifier addProject derives for a request (test-api.sh:303-307):
\* the access token is no argument of generateProjectId.
ProjectIdOf(gitUrl, branch, accessToken) == GenerateProjectId(CleanGitUrl(gitUrl), branch)

\* One derivation of an identifier, with the request it was derived for.
Latest(calls) == IF Len(calls) > IdWindow THEN SubSeq(calls, 1, IdWindow) ELSE calls

DeriveId(form, user, host, path, dotGit, branch, token) ==
    /\ idCalls' = Latest(<<[form |-> form, host |-> host, path |-> path, dotGit |-> dotGit,
                             branch |-> branch, token |-> token,
                             url |-> MkUrl(form, user, host, path, dotGit),
                             id |-> ProjectIdOf(MkUrl(form, user, host, path, dotGit),
                                                branch, token)]>> \o idCalls)
    /\ UNCHANGED <<mainVars, gitVars, storeVars>>

\* ------------------------------------------------- project registry
\* projects.json, the project map and the checkouts, as the add route and
\* addProject change them. A step is what runs between two waits on the
\* file system, git or the provider.
Ops == 1..MaxOps

\* The URLs requests are made with.
UrlA == MkUrl("https", "", "github.com", "u/r", TRUE)
RequestUrls ==
    {UrlA,
     MkUrl("https", "", "github.com", "u/r", FALSE),
     MkUrl("ssh", "", "github.com", "v/s", FALSE),
     MkUrl("https", "tok@", "github.com", "v/s", FALSE),
     MkUrl("badport", "tok@", "github.com", "v/s", FALSE)}
RequestTokens == {"none", "t1"}

NoProject == [id |-> <<>>, gitUrl |-> <<>>, branch |-> "", accessToken |-> "none",
              status |-> "none", errorMessage |-> FALSE]
NoOp == [kind |-> "none", pc |-> "idle", gitUrl |-> <<>>, branch |-> "", accessToken |-> "none",
         target |-> <<>>, clearToken |-> FALSE, persist |-> "none",
         cleanUrl |-> <<>>, projectId |-> <<>>, cfg |-> <<>>, project |-> NoProject,
         dup |-> FALSE, wrote |-> FALSE, cloned |-> FALSE, http |-> 0, cleared |-> 0]

SetOp(o, op) == ops' = [ops EXCEPT ![o] = op]
Reject(op, code) == [op EXCEPT !.pc = "rejected", !.http = code]

\* The identifier of a stored entry as addProject and removeProject
\* recompute it (test-api.sh:314-318, 366-370).
EntryId(e) == GenerateProjectId(CleanGitUrl(e.gitUrl), e.branch)

\* projects.get / projects.set / projects.delete.
MapHas(reg, id) == \E q \in reg : q.id = id
MapGet(reg, id) == CHOOSE q \in reg : q.id = id
MapDelete(reg, id) == {q \in reg : q.id # id}
MapSet(reg, proj) == MapDelete(reg, proj.id) \cup {proj}

\* The token check of the add routes (server.ts:1362-1365, 2180-2185).
TokenNeedsHttps(gitUrl, accessToken) ==
    accessToken # "none" /\ ~StartsWith(gitUrl, "https://")

\* POST /projects is entered (server.ts:2171-2192) and addProject runs up
\* to its wait for projects.json (test-api.sh:303-311).
AddStart(o, gitUrl, branch, accessToken) ==
    /\ boot.phase = "serving"
    /\ ops[o].kind = "none"
    /\ \A q \in Ops : q < o => ops[q].kind # "none"
    /\ LET op == [NoOp EXCEPT !.kind = "add", !.gitUrl = gitUrl, !.branch = branch,
                              !.accessToken = accessToken, !.persist = accessToken]
       IN  SetOp(o, IF TokenNeedsHttps(gitUrl, accessToken) THEN Reject(op, 400)
                    ELSE [op EXCEPT !.pc = "addLoad",
                                    !.cleanUrl = CleanGitUrl(gitUrl),
                                    !.projectId = GenerateProjectId(CleanGitUrl(gitUrl), branch)])
    /\ UNCHANGED <<config, registry, checkouts, sessionKeys, boot, idCalls, mainVars, gitVars>>

\* The duplicate check of addProject (test-api.sh:314-318).
Exists_SameUrl(cfg, projectId, cleanUrl, branch) ==
    \E i \in 1..Len(cfg) : cfg[i].gitUrl = cleanUrl /\ cfg[i].branch = branch
Exists(cfg, projectId, cleanUrl, branch) ==
    \E i \in 1..Len(cfg) : EntryId(cfg[i]) = projectId

\* The entry addProject appends (test-api.sh:324-331).
NewEntry(op) == [gitUrl |-> op.cleanUrl, branch |-> op.branch, accessToken |-> op.accessToken]

\* projects.json has been read: the duplicate check, then the entry is
\* appended and the file is being written (test-api.sh:311-332).
AddLoaded(o) ==
    LET op == ops[o] IN
    /\ op.kind = "add" /\ op.pc = "addLoad"
    /\ SetOp(o, IF Exists(config, op.projectId, op.cleanUrl, op.branch)
                THEN [Reject(op, 500) EXCEPT !.dup = TRUE]
                ELSE [op EXCEPT !.pc = "addSave", !.cfg = Append(config, NewEntry(op))])
    /\ UNCHANGED <<config, registry, checkouts, sessionKeys, boot, idCalls, mainVars, gitVars>>

\* saveProjectsConfig settles; the project object is created with status
\* cloning and cloneRepository starts (test-api.sh:332-347, 181-188).
AddSaved(o, ok) ==
    LET op == ops[o] IN
    /\ op.kind = "add" /\ op.pc = "addSave"
    /\ IF ok
       THEN /\ config' = op.cfg
            /\ SetOp(o, [op EXCEPT !.pc = "addClone", !.wrote = TRUE,
                            !.project = [id |-> op.projectId, gitUrl |-> op.cleanUrl,
                                         branch |-> op.branch,
                                         accessToken |-> op.accessToken,
                                         status |-> "cloning", errorMessage |-> FALSE]])
       ELSE /\ config' = config
            /\ SetOp(o, Reject(op, 500))
    /\ UNCHANGED <<registry, checkouts, sessionKeys, boot, idCalls, mainVars, gitVars>>

\* The status addProject gives the project once cloneRepository has settled
\* (test-api.sh:346-353).
AfterClone_Throws(op, ok) ==
    IF ok THEN [op EXCEPT !.pc = "addCache", !.project.status = "ready"]
    ELSE Reject(op, 500)
AfterClone(op, ok) ==
    IF ok THEN [op EXCEPT !.pc = "addCache", !.project.status = "ready"]
    ELSE [op EXCEPT !.pc = "addCache", !.project.status = "error",
                    !.project.errorMessage = TRUE]

\* cloneRepository (test-api.sh:174-213): an existing directory is left as
\* it is; otherwise git clone runs and creates it when it succeeds.
AddCloned(o, ok) ==
    LET op == ops[o]
        present == op.projectId \in checkouts
    IN  /\ op.kind = "add" /\ op.pc = "addClone"
        /\ present => ok
        /\ checkouts' = IF ok THEN checkouts \cup {op.projectId} ELSE checkouts
        /\ SetOp(o, AfterClone([op EXCEPT !.cloned = ~present], ok))
        /\ UNCHANGED <<config, registry, sessionKeys, boot, idCalls, mainVars, gitVars>>

\* createCachedContent settles and the project enters the map
\* (server.ts:2194-2198).
AddCached(o, ok) ==
    LET op == ops[o] IN
    /\ op.kind = "add" /\ op.pc = "addCache"
    /\ IF ok
       THEN /\ registry' = MapSet(registry, op.project)
            /\ SetOp(o, [op EXCEPT !.pc = "done", !.http = 200])
       ELSE /\ registry' = registry
            /\ SetOp(o, Reject(op, 500))
    /\ UNCHANGED <<config, checkouts, sessionKeys, boot, idCalls, mainVars, gitVars>>

\* A chat session is registered under the key sessionId:projectId:mode
\* (server.ts:503-550). Only the key matters to the registry.
OpenSession(sid, id, mode) ==
    /\ boot.phase = "serving"
    /\ MapHas(registry, id)
    /\ <<sid, id, mode>> \notin sessionKeys
    /\ sessionKeys' = sessionKeys \cup {<<sid, id, mode>>}
    /\ UNCHANGED <<config, registry, checkouts, ops, boot, idCalls, mainVars, gitVars>>

\* The keys that survive key.includes(`:${projectId}:`) (server.ts:2238-2242,
\* 852-861): session ids hold no colon, so only the middle part can match.
SessionsWithout_DefaultMode(keys, id) == {k \in keys : ~(k[2] = id /\ k[3] = "enhance")}
SessionsWithout(keys, id) == {k \in keys : k[2] # id}

\* clearedCount, the number clearSessionsForProject returns (server.ts:853-860).
ClearedSessions(keys, id) == Cardinality(keys \ SessionsWithout(keys, id))

\* The filter of removeProject (test-api.sh:366-370).
WithoutProject(cfg, id) == SelectSeq(cfg, LAMBDA e : EntryId(e) # id)

\* DELETE /projects/:projectId is entered (server.ts:2223-2235) and
\* removeProject waits for projects.json (test-api.sh:361-363).
RemoveStart(o, id) ==
    /\ boot.phase = "serving"
    /\ ops[o].kind = "none"
    /\ \A q \in Ops : q < o => ops[q].kind # "none"
    /\ LET op == [NoOp EXCEPT !.kind = "remove", !.target = id]
       IN  SetOp(o, IF MapHas(registry, id) THEN [op EXCEPT !.pc = "rmLoad"]
                    ELSE Reject(op, 404))
    /\ UNCHANGED <<config, registry, checkouts, sessionKeys, boot, idCalls, mainVars, gitVars>>

\* projects.json has been read and filtered; the file is being written
\* (test-api.sh:363-371).
RemoveLoaded(o) ==
    LET op == ops[o] IN
    /\ op.kind = "remove" /\ op.pc = "rmLoad"
    /\ SetOp(o, [op EXCEPT !.pc = "rmSave", !.cfg = WithoutProject(config, op.target)])
    /\ UNCHANGED <<config, registry, checkouts, sessionKeys, boot, idCalls, mainVars, gitVars>>

\* The write settles; the sessions of the project and its map entry go
\* (test-api.sh:371-376, server.ts:2237-2245).
RemoveSaved(o, ok) ==
    LET op == ops[o] IN
    /\ op.kind = "remove" /\ op.pc = "rmSave"
    /\ IF ok
       THEN /\ config' = op.cfg
            /\ sessionKeys' = SessionsWithout(sessionKeys, op.target)
            /\ registry' = MapDelete(registry, op.target)
            /\ SetOp(o, [op EXCEPT !.pc = "done", !.wrote = TRUE, !.http = 200])
       ELSE /\ UNCHANGED <<config, sessionKeys, registry>>
            /\ SetOp(o, Reject(op, 500))
    /\ UNCHANGED <<checkouts, boot, idCalls, mainVars, gitVars>>

\* The project initializeProjects builds for a configuration entry
\* (test-api.sh:243-289).
InitProject(e, ok) ==
    [id |-> EntryId(e), gitUrl |-> CleanGitUrl(e.gitUrl), branch |-> e.branch,
     accessToken |-> e.accessToken,
     status |-> IF ok THEN "ready" ELSE "error", errorMessage |-> ~ok]

\* The map after one turn of the loop of initializeProjects
\* (test-api.sh:249-289).
AfterInitClone_Skip(reg, e, ok) == IF ok THEN MapSet(reg, InitProject(e, ok)) ELSE reg
AfterInitClone(reg, e, ok) == MapSet(reg, InitProject(e, ok))

\* One turn of the loop of initializeProjects: cloneRepository leaves an
\* existing directory alone, otherwise clones (test-api.sh:243-289, 174-213).
InitializeEntry(ok) ==
    /\ boot.phase = "init"
    /\ boot.idx <= Len(config)
    /\ LET e == config[boot.idx]
           present == EntryId(e) \in checkouts
       IN  /\ present => ok
           /\ registry' = AfterInitClone(registry, e, ok)
           /\ checkouts' = IF ok THEN checkouts \cup {EntryId(e)} ELSE checkouts
           /\ boot' = [boot EXCEPT !.idx = @ + 1,
                                   !.cloned = IF present THEN @ ELSE @ \cup {EntryId(e)}]
    /\ UNCHANGED <<config, sessionKeys, ops, idCalls, mainVars, gitVars>>

\* startServer creates the caches of the initialized projects and starts
\* serving; a failure ends the process (server.ts:2294-2308).
StartServer(ok) ==
    /\ boot.phase = "init"
    /\ boot.idx > Len(config)
    /\ boot' = [boot EXCEPT !.phase = IF ok THEN "serving" ELSE "fatal"]
    /\ UNCHANGED <<config, registry, checkouts, sessionKeys, ops, idCalls, mainVars, gitVars>>

\* The token check of the edit route (server.ts:969-972).
EditTokenNeedsHttps(gitUrl, accessToken) ==
    accessToken # "none" /\ ~StartsWith(gitUrl, "https://")

\* POST /projects/:projectId/edit is entered and runs up to its wait for
\* projects.json (server.ts:941-976).
EditStart(o, id, gitUrl, branch, accessToken, clearToken) ==
    /\ boot.phase = "serving"
    /\ ops[o].kind = "none"
    /\ \A q \in Ops : q < o => ops[q].kind # "none"
    /\ LET op == [NoOp EXCEPT !.kind = "edit", !.target = id, !.gitUrl = gitUrl,
                              !.branch = branch, !.accessToken = accessToken,
                              !.clearToken = clearToken]
       IN  SetOp(o, IF ~MapHas(registry, id) THEN Reject(op, 404)
                    ELSE IF EditTokenNeedsHttps(gitUrl, accessToken) THEN Reject(op, 400)
                    ELSE [op EXCEPT !.pc = "editLoad", !.cleanUrl = CleanGitUrl(gitUrl),
                                    !.project = MapGet(registry, id)])
    /\ UNCHANGED <<config, registry, checkouts, sessionKeys, boot, idCalls, mainVars, gitVars>>

\* The project object the handler holds: the one in the map while it is
\* there, else as it was when the handler took it (server.ts:944).
HeldProject(op) == IF MapHas(registry, op.target) THEN MapGet(registry, op.target) ELSE op.project

\* tokenToPersist (server.ts:991-998).
TokenToPersist(op) ==
    IF op.clearToken THEN "none"
    ELSE IF op.accessToken # "none" THEN op.accessToken
    ELSE HeldProject(op).accessToken

\* configIndex (server.ts:977-981); 0 stands for -1.
ConfigIndex(cfg, id) ==
    IF \E i \in 1..Len(cfg) : EntryId(cfg[i]) = id
    THEN CHOOSE i \in 1..Len(cfg) :
            EntryId(cfg[i]) = id /\ \A j \in 1..(i - 1) : EntryId(cfg[j]) # id
    ELSE 0

\* The conflict check (server.ts:1003-1016).
Conflict(cfg, idx, oldId, newId) ==
    newId # oldId /\ \E i \in 1..Len(cfg) : i # idx /\ EntryId(cfg[i]) = newId

\* projects.json has been read: entry lookup, token to persist, new
\* identifier, conflict check; then either the file is written or the new
\* checkout is cloned first (server.ts:976-1044).
EditLoaded(o) ==
    LET op == ops[o]
        idx == ConfigIndex(config, op.target)
        token == TokenToPersist(op)
        newId == GenerateProjectId(op.cleanUrl, op.branch)
        entry == [gitUrl |-> op.cleanUrl, branch |-> op.branch, accessToken |-> token]
        seen == [op EXCEPT !.persist = token, !.projectId = newId]
    IN  /\ op.kind = "edit" /\ op.pc = "editLoad"
        /\ SetOp(o, IF idx = 0 THEN Reject(op, 404)
                    ELSE IF Conflict(config, idx, op.target, newId) THEN Reject(seen, 400)
                    ELSE [seen EXCEPT !.cfg = [config EXCEPT ![idx] = entry],
                                      !.pc = IF newId = op.target THEN "editSave"
                                             ELSE "editClone"])
        /\ UNCHANGED <<config, registry, checkouts, sessionKeys, boot, idCalls, mainVars, gitVars>>

\* The project after an edit: updated in place when the identifier stays,
\* a new object otherwise (server.ts:1030-1036, 1055-1063).
EditedProject(op) ==
    [id |-> op.projectId, gitUrl |-> op.cleanUrl, branch |-> op.branch,
     accessToken |-> op.persist, status |-> "ready", errorMessage |-> FALSE]

\* The identifier is unchanged: the write settles, the project object is
\* updated and its sessions are cleared (server.ts:1026-1040).
EditSaved(o, ok) ==
    LET op == ops[o] IN
    /\ op.kind = "edit" /\ op.pc = "editSave"
    /\ IF ok
       THEN /\ config' = op.cfg
            /\ registry' = IF MapHas(registry, op.target)
                           THEN MapSet(registry, EditedProject(op)) ELSE registry
            /\ sessionKeys' = SessionsWithout(sessionKeys, op.target)
            /\ SetOp(o, [op EXCEPT !.pc = "done", !.wrote = TRUE, !.http = 302,
                                   !.project = EditedProject(op),
                                   !.cleared = ClearedSessions(sessionKeys, op.target)])
       ELSE /\ UNCHANGED <<config, registry, sessionKeys>>
            /\ SetOp(o, Reject(op, 500))
    /\ UNCHANGED <<checkouts, boot, idCalls, mainVars, gitVars>>

\* What the handler does once rm and cloneRepository have settled
\* (server.ts:1043-1052): a failure is answered with 500 before anything is
\* saved.
AfterEditClone_SaveAnyway(op, ok) == [op EXCEPT !.pc = "editSaveNew", !.cloned = TRUE]
AfterEditClone(op, ok) ==
    IF ok THEN [op EXCEPT !.pc = "editSaveNew", !.cloned = TRUE]
    ELSE [Reject(op, 500) EXCEPT !.cloned = TRUE]

\* The identifier changes: the target directory is removed and the
\* repository cloned into it; on success the file is being written
\* (server.ts:1041-1052).
EditCloned(o, ok) ==
    LET op == ops[o] IN
    /\ op.kind = "edit" /\ op.pc = "editClone"
    /\ checkouts' = IF ok THEN checkouts \cup {op.projectId} ELSE checkouts \ {op.projectId}
    /\ SetOp(o, AfterEditClone(op, ok))
    /\ UNCHANGED <<config, registry, sessionKeys, boot, idCalls, mainVars, gitVars>>

\* The write settles, the sessions of the old identifier are cleared and
\* the cache of the new project is being created (server.ts:1051-1065).
EditSavedNew(o, ok) ==
    LET op == ops[o] IN
    /\ op.kind = "edit" /\ op.pc = "editSaveNew"
    /\ IF ok
       THEN /\ config' = op.cfg
            /\ sessionKeys' = SessionsWithout(sessionKeys, op.target)
            /\ SetOp(o, [op EXCEPT !.pc = "editCache", !.wrote = TRUE,
                                   !.project = EditedProject(op),
                                   !.cleared = ClearedSessions(sessionKeys, op.target)])
       ELSE /\ UNCHANGED <<config, sessionKeys>>
            /\ SetOp(o, Reject(op, 500))
    /\ UNCHANGED <<registry, checkouts, boot, idCalls, mainVars, gitVars>>

\* createCachedContent settles and the map entry moves to the new
\* identifier (server.ts:1065-1076).
EditCached(o, ok) ==
    LET op == ops[o] IN
    /\ op.kind = "edit" /\ op.pc = "editCache"
    /\ IF ok
       THEN /\ registry' = MapSet(MapDelete(registry, op.target), op.project)
            /\ SetOp(o, [op EXCEPT !.pc = "done", !.http = 302])
       ELSE /\ registry' = registry
            /\ SetOp(o, Reject(op, 500))
    /\ UNCHANGED <<config, checkouts, sessionKeys, boot, idCalls, mainVars, gitVars>>

\* ------------------------------------------------ supervised git command
\* One call of runGitCommand (gitRunner.ts:88-238) from the moment spawn has
\* returned and the listeners and timers are set, event by event.
NoRun == [timeout |-> FALSE, capture |-> FALSE, stdoutBytes |-> 0, stderrBytes |-> 0,
          timedOut |-> FALSE, resolved |-> FALSE, timeoutHandle |-> "unset",
          killTimeoutHandle |-> "unset", promise |-> "pending", reason |-> "none",
          closeSeen |-> FALSE, errorSeen |-> FALSE, signals |-> {},
          shutdownTimer |-> "unset"]
NoChild == [state |-> "none", killed |-> FALSE, ignoresTerm |-> FALSE,
            dying |-> "none", code |-> 0, signal |-> "none"]

\* What a handler has made of the call so far.
World == [run |-> run, child |-> child, active |-> activeGitProcesses]
Commit(w) ==
    /\ run' = w.run
    /\ child' = w.child
    /\ activeGitProcesses' = w.active
    /\ UNCHANGED <<clock, mainVars, regVars>>

\* child.kill(signal): Node sets child.killed once the signal has been
\* delivered to a process that still exists; SIGTERM ends a child that does
\* not ignore it, SIGKILL ends any child.
Kill(w, sig) ==
    IF w.child.state = "running"
    THEN [w EXCEPT !.child.killed = TRUE,
                   !.child.dying = IF @ = "none" /\ (sig = "SIGKILL" \/ ~w.child.ignoresTerm)
                                   THEN sig ELSE @,
                   !.run.signals = @ \cup {sig}]
    ELSE w

\* cleanup (gitRunner.ts:113-131).
Cleanup_KeepTracked(w) == [w EXCEPT !.run.resolved = TRUE]
Cleanup(w) == [w EXCEPT !.run.resolved = TRUE, !.active = @ \ {"c1"}]

\* abortWithError (gitRunner.ts:133-145).
AbortWithError(w, reason) ==
    IF w.run.resolved THEN w
    ELSE LET c == Cleanup(w)
             k == IF ~c.child.killed THEN Kill(c, "SIGTERM") ELSE c
         IN  [k EXCEPT !.run.promise = "rejected", !.run.reason = reason]

\* clearTimeouts (gitRunner.ts:202-211).
ClearTimeouts(w) ==
    [w EXCEPT !.run.timeoutHandle = IF @ = "armed" THEN "cleared" ELSE @,
              !.run.killTimeoutHandle = IF @ = "armed" THEN "cleared" ELSE @]

\* The condition under which the grace timer sends SIGKILL (gitRunner.ts:191).
ShouldForceKill(w) == ~w.run.resolved /\ ~w.child.killed

\* A 'data' event of stdout or stderr (gitRunner.ts:149-157, 162-170).
OnData(w, field, n) ==
    LET w1 == [w EXCEPT !.run[field] = @ + n] IN
    IF w1.run[field] > MaxBuffer
    THEN AbortWithError(Kill(w1, "SIGTERM"), "overflow")
    ELSE w1

StreamOpen ==
    /\ run.capture
    /\ ~run.resolved
    /\ ~run.closeSeen
    /\ child.state \in {"running", "exited"}

StdoutData(n) ==
    /\ StreamOpen
    /\ Commit(OnData(World, "stdoutBytes", n))

StderrData(n) ==
    /\ StreamOpen
    /\ Commit(OnData(World, "stderrBytes", n))

\* The timeout timer fires (gitRunner.ts:178-199).
TimeoutFires ==
    /\ run.timeoutHandle = "armed"
    /\ LET w == [World EXCEPT !.run.timeoutHandle = "fired"] IN
       Commit(IF w.run.resolved THEN w
              ELSE [Kill([w EXCEPT !.run.timedOut = TRUE], "SIGTERM")
                       EXCEPT !.run.killTimeoutHandle = "armed"])

\* The grace timer fires (gitRunner.ts:190-198).
KillTimerFires ==
    /\ run.killTimeoutHandle = "armed"
    /\ LET w == [World EXCEPT !.run.killTimeoutHandle = "fired"] IN
       Commit(IF ShouldForceKill(w) THEN Kill(w, "SIGKILL") ELSE w)

\* The child exits of its own accord.
ChildExits(code) ==
    /\ child.state = "running"
    /\ child.dying = "none"
    /\ Commit([World EXCEPT !.child.state = "exited", !.child.code = code])

\* A delivered signal ends the child.
ChildDies ==
    /\ child.state = "running"
    /\ child.dying # "none"
    /\ Commit([World EXCEPT !.child.state = "exited", !.child.code = -1,
                            !.child.signal = child.dying, !.child.dying = "none"])

\* The process receives SIGTERM or SIGINT: the handler that
\* registerShutdownHandlers installed signals every supervised child, arms a
\* 2 s timer for each and empties the set (gitRunner.ts:14-33). With a
\* listener installed the signal no longer ends the process.
ShutdownSignal ==
    LET w == IF "c1" \in activeGitProcesses
             THEN [Kill(World, "SIGTERM") EXCEPT !.run.shutdownTimer = "armed"]
             ELSE World
    IN  Commit([w EXCEPT !.active = {}])

\* The handler's 2 s timer fires (gitRunner.ts:20-24).
ShutdownTimerFires ==
    /\ run.shutdownTimer = "armed"
    /\ LET w == [World EXCEPT !.run.shutdownTimer = "fired"] IN
       Commit(IF ~w.child.killed THEN Kill(w, "SIGKILL") ELSE w)

\* The 'error' event of a child that could not be spawned
\* (gitRunner.ts:213-216).
ErrorEvent ==
    /\ child.state = "nospawn"
    /\ ~run.errorSeen
    /\ Commit(AbortWithError(ClearTimeouts([World EXCEPT !.run.errorSeen = TRUE]), "spawn"))

\* The 'close' event (gitRunner.ts:218-236); Node may emit it after 'error'
\* too, with a non-zero code.
OnClose_Unguarded(w) ==
    LET c == Cleanup(w) IN
    IF c.child.state = "exited" /\ c.child.code = 0
    THEN [c EXCEPT !.run.promise = "resolved", !.run.reason = "ok"]
    ELSE [c EXCEPT !.run.promise = "rejected",
                   !.run.reason = IF c.run.timedOut THEN "timeout" ELSE "exit"]
OnClose(w) ==
    IF w.run.resolved THEN w
    ELSE LET c == Cleanup(w) IN
         IF c.child.state = "exited" /\ c.child.code = 0
         THEN [c EXCEPT !.run.promise = "resolved", !.run.reason = "ok"]
         ELSE [c EXCEPT !.run.promise = "rejected",
                        !.run.reason = IF c.run.timedOut THEN "timeout" ELSE "exit"]

CloseEvent ==
    /\ ~run.closeSeen
    /\ \/ child.state = "exited"
       \/ child.state = "nospawn" /\ run.errorSeen
    /\ Commit(OnClose(ClearTimeouts([World EXCEPT !.run.closeSeen = TRUE])))

\* ------------------------------------------------------ session sweep
\* SESSION_MAX_AGE in hours (server.ts:209).
SESSION_MAX_AGE == 24
MaxClock == 26
MaxSweeps == 2

\* The test of cleanupOldSessions (server.ts:559).
TooOld_Inclusive(s, t) == t - s.lastUsed >= SESSION_MAX_AGE
TooOld(s, t) == t - s.lastUsed > SESSION_MAX_AGE

\* cleanupOldSessions, run by its interval timer (server.ts:555-564, 2289).
CleanupOldSessions ==
    /\ clock.sweeps < MaxSweeps
    /\ chatSessions' = [key \in Keys |->
                           IF chatSessions[key].oid # 0 /\ TooOld(chatSessions[key], clock.now)
                           THEN NoSession ELSE chatSessions[key]]
    /\ clock' = [clock EXCEPT !.sweeps = @ + 1]
    /\ UNCHANGED <<order, projects, repo, isRunning, fired, ticks, hist, turns,
                   nextHandle, nextSession, marks, run, child, activeGitProcesses, regVars>>

\* An hour passes.
TimePasses ==
    /\ clock.now < MaxClock
    /\ clock' = [clock EXCEPT !.now = @ + 1]
    /\ UNCHANGED <<mainVars, run, child, activeGitProcesses, regVars>>

\* ------------------------------------------------------- specifications
InitProjects ==
    [p \in Proj |->
        [lastUpdated |-> 0, cacheStale |-> FALSE,
         cachedContent |-> IF p = "p1" THEN 1 ELSE 2, cacheSource |-> 0]]

InitState(ord) ==
    /\ order = ord
    /\ projects = InitProjects
    /\ repo = [p \in Proj |-> [head |-> 0, origin |-> 0, upstream |-> 0]]
    /\ isRunning = FALSE
    /\ fired = 0
    /\ ticks = [k \in 1..MaxTicks |-> IdleTick]
    /\ hist = NoHist
    /\ chatSessions = [key \in Keys |-> NoSession]
    /\ turns = [r \in Reqs |-> NewTurn]
    /\ nextHandle = 3
    /\ nextSession = 1
    /\ marks = [p \in Proj |-> 0]

\* No project registration is under observation.
NoReg ==
    /\ idCalls = <<>>
    /\ config = <<>>
    /\ registry = {}
    /\ checkouts = {}
    /\ sessionKeys = {}
    /\ ops = [o \in Ops |-> NoOp]
    /\ boot = [phase |-> "serving", idx |-> 0, cloned |-> {}]

\* The process has just started and no sweep has run.
NoClock == [now |-> 0, sweeps |-> 0]

\* No git command is under observation.
NoGit == run = NoRun /\ child = NoChild /\ activeGitProcesses = {} /\ clock = NoClock

\* startServer has loaded two projects (server.ts:2294-2308).
InitSync == InitState(<<"p1", "p2">>) /\ NoGit /\ NoReg

\* The synchronization loop alone, observed.
NextSync ==
    \/ SyncTimerFires
    \/ SyncRewrite
    \/ SyncFetch
    \/ SyncRevParseHead
    \/ SyncRevParseOrigin
    \/ SyncPullRewrite
    \/ SyncPull
    \/ SyncPush

SpecSync == InitSync /\ [][NextSync]_vars

\* The synchronization loop together with chat requests.
Init == InitState(<<"p1">>) /\ NoGit /\ NoReg

WatchTimerFires == TimerFires /\ UNCHANGED <<hist, gitVars, regVars>>
WatchRewrite == \E k \in 1..MaxTicks, ok \in BOOLEAN : Rewrite(k, ok) /\ UNCHANGED <<hist, gitVars, regVars>>
WatchFetch == \E k \in 1..MaxTicks, ok \in BOOLEAN : Fetch(k, ok) /\ UNCHANGED <<hist, gitVars, regVars>>
WatchRevParseHead ==
    \E k \in 1..MaxTicks, ok \in BOOLEAN : RevParseHead(k, ok) /\ UNCHANGED <<hist, gitVars, regVars>>
WatchRevParseOrigin ==
    \E k \in 1..MaxTicks, ok \in BOOLEAN : RevParseOrigin(k, ok) /\ UNCHANGED <<hist, gitVars, regVars>>
WatchPullRewrite ==
    \E k \in 1..MaxTicks, ok \in BOOLEAN : PullRewrite(k, ok) /\ UNCHANGED <<hist, gitVars, regVars>>
WatchPull == \E k \in 1..MaxTicks, out \in PullOutcomes :
    Pull(k, out) /\ UNCHANGED <<hist, gitVars, regVars>>
ChatStart == \E r \in Reqs, sid \in Clients, pid \in Proj, mode \in Modes :
                 StartTurn(r, sid, pid, mode) /\ UNCHANGED <<gitVars, regVars>>
ChatRefreshDone == \E r \in Reqs, ok \in BOOLEAN : RefreshDone(r, ok) /\ UNCHANGED <<gitVars, regVars>>
ChatSendDone == \E r \in Reqs, out \in {SendOk} \cup Errors : SendDone(r, out) /\ UNCHANGED <<gitVars, regVars>>
ChatExpiryRebuildDone == \E r \in Reqs, ok \in BOOLEAN :
    ExpiryRebuildDone(r, ok) /\ UNCHANGED <<gitVars, regVars>>

Next ==
    \/ WatchTimerFires
    \/ WatchRewrite
    \/ WatchFetch
    \/ WatchRevParseHead
    \/ WatchRevParseOrigin
    \/ WatchPullRewrite
    \/ WatchPull
    \/ SyncPush
    \/ ChatStart
    \/ ChatRefreshDone
    \/ ChatSendDone
    \/ ChatExpiryRebuildDone

Spec == Init /\ [][Next]_vars

\* One supervised git command: runGitCommand has spawned the child, added it
\* to the supervised set and armed the timeout if one was asked for
\* (gitRunner.ts:96-104, 173-200).
InitGit ==
    /\ InitState(<<"p1">>)
    /\ \E timeout \in BOOLEAN, capture \in BOOLEAN :
          run = [NoRun EXCEPT !.timeout = timeout, !.capture = capture,
                              !.timeoutHandle = IF timeout THEN "armed" ELSE "unset"]
    /\ \E spawned \in BOOLEAN, ignores \in BOOLEAN :
          child = [NoChild EXCEPT !.state = IF spawned THEN "running" ELSE "nospawn",
                                  !.ignoresTerm = ignores]
    /\ activeGitProcesses = {"c1"}
    /\ clock = NoClock
    /\ NoReg

GitStdoutData == \E n \in 1..MaxChunk : StdoutData(n)
GitStderrData == \E n \in 1..MaxChunk : StderrData(n)
GitChildExits == \E code \in {0, 1} : ChildExits(code)

NextGit ==
    \/ GitStdoutData
    \/ GitStderrData
    \/ TimeoutFires
    \/ KillTimerFires
    \/ GitChildExits
    \/ ChildDies
    \/ ErrorEvent
    \/ CloseEvent
    \/ ShutdownSignal
    \/ ShutdownTimerFires

SpecGit == InitGit /\ [][NextGit]_vars

\* Identifiers are derived for arbitrary requests.
InitId == InitState(<<"p1">>) /\ NoGit /\ NoReg

DeriveAnyId ==
    \E form \in {"https", "ssh"}, host \in Hosts, path \in Paths,
       dotGit \in BOOLEAN, branch \in Branches, token \in Tokens :
        DeriveId(form, "", host, path, dotGit, branch, token)

NextId == DeriveAnyId

SpecId == InitId /\ [][NextId]_vars

\* The project registry: start-up from projects.json, then the add and
\* remove requests, and sessions being opened.
EntryA == [gitUrl |-> UrlA, branch |-> "main", accessToken |-> "none"]
EntryB == [gitUrl |-> MkUrl("https", "", "github.com", "v/s", TRUE), branch |-> "main",
           accessToken |-> "t1"]
BootConfigs == {<<>>, <<EntryA>>, <<EntryA, EntryB>>}

InitReg ==
    /\ InitState(<<"p1">>) /\ NoGit
    /\ idCalls = <<>>
    /\ config \in BootConfigs
    /\ checkouts \in SUBSET {EntryId(config[i]) : i \in 1..Len(config)}
    /\ registry = {}
    /\ sessionKeys = {}
    /\ ops = [o \in Ops |-> NoOp]
    /\ boot = [phase |-> "init", idx |-> 1, cloned |-> {}]

KnownIds == {GenerateProjectId(CleanGitUrl(u), "main") : u \in RequestUrls}

NextReg ==
    \/ \E ok \in BOOLEAN : InitializeEntry(ok)
    \/ \E ok \in BOOLEAN : StartServer(ok)
    \/ \E id \in KnownIds, mode \in Modes : OpenSession("s1", id, mode)
    \/ \E o \in Ops, gitUrl \in RequestUrls, accessToken \in RequestTokens :
          AddStart(o, gitUrl, "main", accessToken)
    \/ \E o \in Ops : AddLoaded(o)
    \/ \E o \in Ops, ok \in BOOLEAN : AddSaved(o, ok)
    \/ \E o \in Ops, ok \in BOOLEAN : AddCloned(o, ok)
    \/ \E o \in Ops, ok \in BOOLEAN : AddCached(o, ok)
    \/ \E o \in Ops, id \in KnownIds : RemoveStart(o, id)
    \/ \E o \in Ops : RemoveLoaded(o)
    \/ \E o \in Ops, ok \in BOOLEAN : RemoveSaved(o, ok)

SpecReg == InitReg /\ [][NextReg]_vars

\* The registry under an edit request.
NextEdit ==
    \/ \E ok \in BOOLEAN : InitializeEntry(ok)
    \/ \E ok \in BOOLEAN : StartServer(ok)
    \/ \E id \in KnownIds : OpenSession("s1", id, "enhance")
    \/ \E id \in KnownIds, gitUrl \in RequestUrls, accessToken \in RequestTokens,
          clearToken \in BOOLEAN :
          EditStart(1, id, gitUrl, "main", accessToken, clearToken)
    \/ EditLoaded(1)
    \/ \E ok \in BOOLEAN : EditSaved(1, ok)
    \/ \E ok \in BOOLEAN : EditCloned(1, ok)
    \/ \E ok \in BOOLEAN : EditSavedNew(1, ok)
    \/ \E ok \in BOOLEAN : EditCached(1, ok)

SpecEdit == InitReg /\ [][NextEdit]_vars

\* Chat turns against forced cache refreshes, starting with the cache of
\* p1 fresh or after a tick has pulled a commit and marked it stale.
PulledState(p) ==
    /\ projects = [InitProjects EXCEPT ![p].cacheStale = TRUE, ![p].lastUpdated = 1]
    /\ repo = [q \in Proj |-> IF q = p THEN [head |-> 1, origin |-> 1, upstream |-> 1]
                              ELSE [head |-> 0, origin |-> 0, upstream |-> 0]]
    /\ fired = 1
    /\ ticks = [k \in 1..MaxTicks |->
                  IF k = 1 THEN [status |-> "done", idx |-> 0, stage |-> "none", localCommit |-> 0]
                  ELSE IdleTick]
    /\ marks = [q \in Proj |-> IF q = p THEN 1 ELSE 0]

InitForce ==
    /\ NoGit /\ NoReg
    /\ order = <<"p1">>
    /\ isRunning = FALSE
    /\ hist = NoHist
    /\ chatSessions = [key \in Keys |-> NoSession]
    /\ turns = [r \in Reqs |-> NewTurn]
    /\ nextHandle = 3
    /\ nextSession = 1
    /\ \/ InitState(<<"p1">>)
       \/ PulledState("p1")

NextForce ==
    \/ ChatStart
    \/ ChatRefreshDone
    \/ ChatSendDone
    \/ ChatExpiryRebuildDone
    \/ \E r \in Reqs, pid \in Proj : ForceRefreshStart(r, pid) /\ UNCHANGED <<gitVars, regVars>>
    \/ \E r \in Reqs, ok \in BOOLEAN : ForceRefreshDone(r, ok) /\ UNCHANGED <<gitVars, regVars>>

SpecForce == InitForce /\ [][NextForce]_vars

\* A tick of the watcher with its git commands run by the supervisor: each
\* stage spawns its command, the events of the call follow, and the stage is
\* decided when the promise has settled.

\* The timeoutMs the watcher passes (repoWatcher.ts:14-16, 33-36, 39-46,
\* 67-70): fetch and pull have one, remote set-url and rev-parse have none.
StepTimeout(stage) == stage \in {"fetch", "pull"}

\* The stage of a running tick calls runGitCommand (gitRunner.ts:88-104,
\* 173-200).
TickSpawn(k, spawned, ignores) ==
    /\ ticks[k].status = "running"
    /\ child.state = "none"
    /\ run' = [NoRun EXCEPT !.timeout = StepTimeout(ticks[k].stage), !.capture = TRUE,
                            !.timeoutHandle = IF StepTimeout(ticks[k].stage)
                                              THEN "armed" ELSE "unset"]
    /\ child' = [NoChild EXCEPT !.state = IF spawned THEN "running" ELSE "nospawn",
                                !.ignoresTerm = ignores]
    /\ activeGitProcesses' = {"c1"}
    /\ UNCHANGED <<clock, mainVars, regVars>>

\* The promise of the stage's command has settled and the awaiting code of
\* the watcher goes on (repoWatcher.ts:27-81, 105-121).
TickSettle(k) ==
    /\ run.promise # "pending"
    /\ LET ok == run.promise = "resolved" IN
       \/ Rewrite(k, ok)
       \/ Fetch(k, ok)
       \/ RevParseHead(k, ok)
       \/ RevParseOrigin(k, ok)
       \/ PullRewrite(k, ok)
       \/ \E out \in PullOutcomes : (out = "ok" <=> ok) /\ Pull(k, out)
    /\ run' = NoRun
    /\ child' = NoChild
    /\ activeGitProcesses' = {}
    /\ UNCHANGED <<clock, hist, regVars>>

NextTick ==
    \/ WatchTimerFires
    \/ SyncPush
    \/ \E k \in 1..MaxTicks, spawned \in BOOLEAN, ignores \in BOOLEAN :
          TickSpawn(k, spawned, ignores)
    \/ \E k \in 1..MaxTicks : TickSettle(k)
    \/ GitStdoutData
    \/ GitStderrData
    \/ TimeoutFires
    \/ KillTimerFires
    \/ GitChildExits
    \/ ChildDies
    \/ ErrorEvent
    \/ CloseEvent

SpecTick == Init /\ [][NextTick]_vars

\* Chat requests the provider answers, while time passes and the sweep runs.
NextSweep ==
    \/ ChatStart
    \/ \E r \in Reqs : SendDone(r, SendOk) /\ UNCHANGED <<gitVars, regVars>>
    \/ TimePasses
    \/ CleanupOldSessions

SpecSweep == Init /\ [][NextSweep]_vars

\* An edit request while two clients hold sessions in both modes.
AllClients == {"s1", "s2"}

NextClear ==
    \/ \E ok \in BOOLEAN : InitializeEntry(ok)
    \/ \E ok \in BOOLEAN : StartServer(ok)
    \/ \E sid \in AllClients, id \in KnownIds, mode \in Modes : OpenSession(sid, id, mode)
    \/ \E id \in KnownIds, gitUrl \in RequestUrls :
          EditStart(1, id, gitUrl, "main", "none", FALSE)
    \/ EditLoaded(1)
    \/ \E ok \in BOOLEAN : EditSaved(1, ok)
    \/ \E ok \in BOOLEAN : EditCloned(1, ok)
    \/ \E ok \in BOOLEAN : EditSavedNew(1, ok)
    \/ \E ok \in BOOLEAN : EditCached(1, ok)

SpecClear == InitReg /\ [][NextClear]_vars

\* ------------------------------------------------------------- claims
ProjectsInMap == {order[i] : i \in 1..Len(order)}
RunningTicks == {k \in 1..MaxTicks : ticks[k].status = "running"}
HardSteps == {"fetch", "revHead", "revOrigin", "pull"}
CheckSteps == {"fetch", "revHead", "revOrigin"}

\* A timer firing that finds a tick running starts nothing and writes nothing.
SkipStep ==
    (fired' = fired + 1 /\ RunningTicks # {}) =>
        /\ ticks'[fired'].status = "skipped"
        /\ \A k \in 1..fired : ticks'[k] = ticks[k]
        /\ UNCHANGED <<projects, repo, isRunning>>
\* C1: at most one tick runs at a time; a timer firing that finds a tick
\* running becomes a skipped tick, which starts nothing, runs no git step and
\* leaves every project and repository as it was, then and later.
C1_SingleFlight ==
    /\ [](Cardinality(RunningTicks) <= 1 /\ (isRunning <=> RunningTicks # {}))
    /\ [][SkipStep]_vars
    /\ [][\A k \in 1..MaxTicks : ticks[k].status = "skipped" => ticks'[k] = ticks[k]]_vars
C1_Witness ==
    \E k \in 1..MaxTicks : ticks[k].status = "skipped" /\ RunningTicks # {}

\* C8: a step of the synchronization loop creates no cache, assigns no cache
\* handle, adds or removes no session; of a project it writes lastUpdated and
\* cacheStale only, and cacheStale only to TRUE.
C8_TickFrame ==
    [][ticks' # ticks =>
        /\ nextHandle' = nextHandle
        /\ chatSessions' = chatSessions
        /\ \A p \in Proj :
              /\ projects'[p].cachedContent = projects[p].cachedContent
              /\ projects'[p].cacheStale # projects[p].cacheStale => projects'[p].cacheStale
      ]_vars
C8_Witness ==
    \E p \in Proj, key \in Keys :
        /\ projects[p].cacheStale /\ projects[p].lastUpdated > 0
        /\ key[2] = p /\ chatSessions[key].oid # 0

\* C9 as stated: a failure of any git step of a project, the remote rewrite
\* included, leaves that project's fields unwritten by the tick, and the
\* finished tick has been through every project of the map.
C9_AnyFailureLeavesFields ==
    /\ \A p \in Proj : hist.failed[p] # {} => p \notin hist.wrote
    /\ (hist.tick # 0 /\ ticks[hist.tick].status = "done") => hist.visited = ProjectsInMap
\* C9 amended: a failed fetch, rev-parse or pull leaves the project's fields
\* unwritten by the tick; every failure is caught, so the finished tick has
\* been through every project of the map.
C9_FailureIsolated ==
    /\ \A p \in Proj : hist.failed[p] \cap HardSteps # {} => p \notin hist.wrote
    /\ (hist.tick # 0 /\ ticks[hist.tick].status = "done") => hist.visited = ProjectsInMap
C9_Witness ==
    /\ hist.tick # 0 /\ ticks[hist.tick].status = "done"
    /\ "fetch" \in hist.failed["p1"]
    /\ "p2" \in hist.wrote

Got(r) == turns[r].oid # 0

\* C7 as stated: within one staleness period (the same installed cache, the
\* same number of marks) at most one get-or-create regenerates the cache.
C7_OneRegenPerPeriod ==
    \A r1, r2 \in Reqs :
        (r1 # r2 /\ Got(r1) /\ Got(r2) /\ turns[r1].pid = turns[r2].pid
         /\ turns[r1].createsGet = 1 /\ turns[r2].createsGet = 1)
        => ~(turns[r1].h0 = turns[r2].h0 /\ turns[r1].marked = turns[r2].marked)
\* C7 amended: the flag is set exactly while a mark is newer than the last
\* cache install; a get-or-create that begins with N >= 1 such marks
\* regenerates once, one that begins with none does not regenerate.
C7_LazyRegeneration ==
    /\ \A p \in ProjectsInMap : projects[p].cacheStale <=> marks[p] >= 1
    /\ \A r \in Reqs : Got(r) =>
           turns[r].createsGet = IF turns[r].marked >= 1 THEN 1 ELSE 0
C7_Witness ==
    \E r1, r2 \in Reqs :
        /\ Got(r1) /\ turns[r1].marked = 2 /\ turns[r1].createsGet = 1
        /\ Got(r2) /\ turns[r2].createsGet = 0 /\ turns[r2].h0 > turns[r1].h0

\* Turn r's awaited cache creation, begun at one of pcs, succeeds in this step.
RegenCompletes(r, pcs) ==
    /\ turns[r].pc \in pcs
    /\ turns'[r].pc # turns[r].pc
    /\ projects'[turns[r].pid].cachedContent # projects[turns[r].pid].cachedContent
NoSupersededBinding(pid) ==
    \A key \in Keys :
        (key[2] = pid /\ chatSessions'[key].oid # 0)
        => chatSessions'[key].handle = projects'[pid].cachedContent

C5_ExpiryRecovery ==
    \A r \in Reqs :
        (turns[r].pc = "done" /\ turns[r].error # NoError) =>
            /\ turns[r].error.status = 403
            /\ turns[r].error.msg \in {"CachedContent not found", "permission denied"}
            /\ turns[r].creates = 1
            /\ turns[r].sends = 2
            /\ turns[r].result = turns[r].cur
            /\ turns[r].cur # turns[r].oid
C5_Witness ==
    \E r \in Reqs : turns[r].pc = "done" /\ turns[r].sends = 2
                    /\ turns[r].error.msg = "permission denied"

\* C6: a turn sends at most twice and rebuilds for expiry at most once; a
\* failed retried send ends the turn with that error.
C6_BoundedRetry ==
    \A r \in Reqs :
        /\ turns[r].sends <= 2
        /\ turns[r].rebuilds <= 1
        /\ turns[r].creates <= 1
        /\ turns[r].sends = 2 => turns[r].pc \in {"sending", "done", "failed"}
C6_Witness ==
    \E r \in Reqs : turns[r].pc = "failed" /\ turns[r].sends = 2
                    /\ IsCacheExpiredError(turns[r].error)

\* C3: when the timeout of a supervised command elapses the child is sent
\* SIGTERM, and a child that is still running when the grace period that
\* follows has elapsed has been sent SIGKILL, so that the promise settles.
C3_TimeoutEscalates ==
    /\ (run.timedOut /\ child.state = "running") => "SIGTERM" \in run.signals
    /\ (run.killTimeoutHandle = "fired" /\ child.state = "running")
          => "SIGKILL" \in run.signals

\* No timer of the call is pending and no signal is on its way to the child.
GitQuiescent ==
    /\ run.timeoutHandle # "armed"
    /\ run.killTimeoutHandle # "armed"
    /\ run.shutdownTimer # "armed"
    /\ child.dying = "none"
\* C4: once a command has been rejected for exceeding the output limit and
\* the supervisor has nothing left to do, the child is no longer running,
\* whether or not it reacts to SIGTERM.
C4_OverflowTerminates ==
    (run.reason = "overflow" /\ GitQuiescent) => child.state # "running"

\* getActiveGitProcessCount (gitRunner.ts:80-82) and the calls not yet settled.
ActiveGitProcessCount == Cardinality(activeGitProcesses)
UnsettledCalls == IF run.promise = "pending" THEN 1 ELSE 0

SameRepository(a, b) ==
    /\ a.form \in {"https", "ssh"} /\ b.form \in {"https", "ssh"}
    /\ Lower(a.host) = Lower(b.host)
    /\ a.path = b.path
CallPairs == {<<idCalls[i], idCalls[j]>> : i, j \in 1..Len(idCalls)}

\* C13: two requests with the same branch whose URLs differ only by a
\* trailing .git, by HTTPS versus git@host:path form or by the letter case
\* of the host get the same identifier.
C13_IdentityStable ==
    \A pair \in CallPairs :
        (SameRepository(pair[1], pair[2]) /\ pair[1].branch = pair[2].branch)
        => pair[1].id = pair[2].id
C13_Witness ==
    \E pair \in CallPairs :
        /\ pair[1].form = "https" /\ pair[1].dotGit /\ pair[1].host = "GitHub.com"
        /\ pair[2].form = "ssh" /\ ~pair[2].dotGit /\ pair[2].host = "github.com"
        /\ pair[1].path = pair[2].path /\ pair[1].branch = pair[2].branch
        /\ pair[1].id = pair[2].id

\* C14: two requests for the same repository URL get different identifiers
\* whenever their branches differ or their access tokens differ.
C14_IdentityDistinguishes ==
    \A pair \in CallPairs :
        (pair[1].url = pair[2].url
         /\ (pair[1].branch # pair[2].branch \/ pair[1].token # pair[2].token))
        => pair[1].id # pair[2].id

\* The add requests, and the entries of projects.json with the identifier
\* a request derives.
AddOps == {o \in Ops : ops[o].kind = "add"}
SameIdEntries(cfg, op) ==
    {i \in 1..Len(cfg) : EntryId(cfg[i]) = ProjectIdOf(op.gitUrl, op.branch, op.accessToken)}

\* C12: an add whose URL and branch derive the identifier of an entry that
\* projects.json holds when addProject reads it is rejected at that point,
\* having written nothing to the file and attempted no clone, and the step
\* changes neither the file nor the checkouts.
C12_DuplicateRejected ==
    [][\A o \in AddOps :
          (ops[o].pc = "addLoad" /\ ops'[o].pc # "addLoad"
           /\ SameIdEntries(config, ops[o]) # {})
          => /\ ops'[o].pc = "rejected"
             /\ ~ops'[o].wrote /\ ~ops'[o].cloned
             /\ config' = config /\ checkouts' = checkouts /\ registry' = registry]_vars

C12_Witness ==
    \E o \in AddOps :
        /\ ops[o].pc = "rejected" /\ ops[o].dup
        /\ ops[o].gitUrl = MkUrl("https", "", "github.com", "u/r", FALSE)
        /\ \E i \in 1..Len(config) : config[i].gitUrl = UrlA

\* The status changes addProject may make to the project it builds.
StatusMoves == {<<"none", "cloning">>, <<"cloning", "ready">>, <<"cloning", "error">>}

\* C15: addProject has written its entry to projects.json before it attempts
\* the clone; the step in which the clone settles leaves projects.json as it
\* is and does not reject the request, also when the clone fails; the status
\* of the project goes cloning -> ready or cloning -> error, the latter with
\* an error message, and makes no other move.
C15_WriteThenClone ==
    [][\A o \in AddOps :
          /\ ops'[o].cloned => ops'[o].wrote
          /\ (ops[o].pc = "addClone" /\ ops'[o].pc # "addClone")
             => (ops'[o].pc = "addCache" /\ config' = config)
          /\ ops'[o].project.status # ops[o].project.status
             => <<ops[o].project.status, ops'[o].project.status>> \in StatusMoves
          /\ ops'[o].project.status = "error" => ops'[o].project.errorMessage]_vars

C15_Witness ==
    \E o \in AddOps :
        /\ ops[o].pc = "addCache" /\ ops[o].cloned /\ ops[o].wrote
        /\ ops[o].project.status = "error" /\ ops[o].project.errorMessage
        /\ \E i \in 1..Len(config) : config[i] = NewEntry(ops[o])

\* The remove requests whose write of projects.json lands in this step.
RemoveLands(o) == ops[o].kind = "remove" /\ ops[o].pc = "rmSave" /\ ops'[o].pc = "done"
EntriesOf(cfg, id) == {i \in 1..Len(cfg) : EntryId(cfg[i]) = id}
OtherEntries(cfg, id) == SelectSeq(cfg, LAMBDA e : EntryId(e) # id)

\* C16: a remove deletes the entries of its project and leaves the rest as
\* it was, in memory and in projects.json.
C16_RemoveFrame ==
    [][\A o \in Ops :
          RemoveLands(o)
          => /\ EntriesOf(config', ops[o].target) = {}
             /\ \A q \in registry' : q.id # ops[o].target
             /\ \A k \in sessionKeys' : k[2] # ops[o].target
             /\ checkouts' = checkouts
             /\ {q \in registry' : q.id # ops[o].target} = {q \in registry : q.id # ops[o].target}
             /\ {k \in sessionKeys' : k[2] # ops[o].target}
                = {k \in sessionKeys : k[2] # ops[o].target}
             /\ OtherEntries(config', ops[o].target) = OtherEntries(config, ops[o].target)]_vars

\* C17: every turn of the loop of initializeProjects leaves a map entry for
\* its configuration entry and for those before it; when the clone failed
\* (the directory is still missing) the entry has status error with a
\* message and the loop goes on; when the directory was already there, no
\* clone is attempted and the checkouts are unchanged.
C17_InitializeAll ==
    [][(boot.phase = "init" /\ boot'.idx = boot.idx + 1)
       => LET id == EntryId(config[boot.idx]) IN
          /\ \A j \in 1..boot.idx : \E q \in registry' : q.id = EntryId(config[j])
          /\ \E q \in registry' :
                /\ q.id = id
                /\ q.status = IF id \in checkouts' THEN "ready" ELSE "error"
                /\ q.errorMessage = (id \notin checkouts')
          /\ id \in checkouts => (checkouts' = checkouts /\ boot'.cloned = boot.cloned)]_vars

C17_Witness ==
    /\ boot.phase = "init" /\ Len(config) = 2 /\ boot.idx = 3
    /\ \E q \in registry : q.id = EntryId(config[1]) /\ q.status = "error"
    /\ \E q \in registry : q.id = EntryId(config[2]) /\ q.status = "ready"
    /\ boot.cloned = {EntryId(config[1])}

\* A URL with a userinfo component.
HasUserinfo(gitUrl) == \E i \in 1..Len(gitUrl) : gitUrl[i] \in Userinfos \ {""}

\* C18: no project in the map and no entry of projects.json has a gitUrl
\* with a userinfo component (the configurations the server starts from
\* have none, so every such entry was written by a request).
C18_NoTokenInUrl ==
    /\ \A q \in registry : ~HasUserinfo(q.gitUrl)
    /\ \A i \in 1..Len(config) : ~HasUserinfo(config[i].gitUrl)

\* C19: no request has written projects.json or attempted a clone while the
\* token it persists (given in the request or, on an edit, kept from the
\* project) goes with a URL that does not start with https://.
C19_TokenNeedsHttps ==
    \A o \in Ops :
        (ops[o].wrote \/ ops[o].cloned)
        => (ops[o].persist = "none" \/ StartsWith(ops[o].gitUrl, "https://"))

\* Turn r leaves getChatSession with a session in this step.
GetsSession(r) == turns'[r].sends = turns[r].sends + 1
\* The session turn r is handed is one this step creates under its key.
CreatedFor(r) ==
    /\ chatSessions'[TurnKey(turns'[r])] =
           [oid |-> nextSession, handle |-> projects'[turns'[r].pid].cachedContent,
            history |-> <<>>, lastUsed |-> clock.now]
    /\ nextSession' = nextSession + 1
    /\ \A key \in Keys : chatSessions[key].oid # nextSession

\* C20: each registered session sits under one key only. A get-or-create
\* that finds a session under its key returns that session and creates
\* none; one that finds none creates a session with an empty transcript,
\* bound to the cache handle the project has at that point, under the key,
\* and returns it. A get-or-create for a project that is not in the map, or
\* that has no cache handle, fails and leaves the registry as it is.
C20_GetOrCreate ==
    [][/\ \A k1, k2 \in Keys :
             (k1 # k2 /\ chatSessions'[k1].oid # 0) => chatSessions'[k1].oid # chatSessions'[k2].oid
       /\ \A r \in Reqs :
             /\ GetsSession(r)
                => /\ turns'[r].cur = chatSessions'[TurnKey(turns'[r])].oid
                   /\ turns'[r].cur # 0
                   /\ IF chatSessions[TurnKey(turns'[r])].oid # 0 /\ turns[r].pc # "expiryRebuild"
                      THEN chatSessions' = chatSessions /\ nextSession' = nextSession
                      ELSE CreatedFor(r)
             /\ (turns'[r].pc = "failed" /\ turns[r].pc # "failed"
                 /\ turns'[r].error \in {NotFound, NoCache})
                => (chatSessions' = chatSessions /\ nextSession' = nextSession)]_vars

C20_Witness ==
    \E r1, r2 \in Reqs :
        /\ r1 # r2 /\ TurnKey(turns[r1]) = TurnKey(turns[r2])
        /\ turns[r1].sends = 1 /\ turns[r2].sends = 1
        /\ turns[r1].cur = turns[r2].cur /\ turns[r1].cur # 0
        /\ chatSessions[TurnKey(turns[r1])].oid = turns[r1].cur

\* Turn r's stale-triggered refresh settles successfully in this step.
LazyRefreshCompletes(r) == turns[r].pc = "refreshing" /\ turns'[r].pc = "sending"

\* C25: the step in which a stale-triggered refresh completes leaves every
\* session that was registered before it registered under the same key,
\* with the same identity, handle and transcript.
C25_RefreshKeepsSessions ==
    [][\A r \in Reqs : LazyRefreshCompletes(r) =>
          \A key \in Keys : chatSessions[key].oid # 0 => chatSessions'[key] = chatSessions[key]]_vars

C25_Witness ==
    \E r1, r2 \in Reqs :
        /\ r1 # r2 /\ turns[r1].pid = turns[r2].pid
        /\ turns[r2].createsGet = 1 /\ turns[r2].pc = "sending"
        /\ turns[r1].pc = "done"
        /\ chatSessions[TurnKey(turns[r1])].oid = turns[r1].oid
        /\ Len(chatSessions[TurnKey(turns[r1])].history) = 2
        /\ chatSessions[TurnKey(turns[r1])].handle < projects[turns[r1].pid].cachedContent

\* No cache rebuild for p is in flight and no tick is running.
RebuildsSettled(p) ==
    /\ ~isRunning
    /\ \A r \in Reqs : turns[r].pid = p => turns[r].pc \notin {"refreshing", "expiryRebuild"}

\* C27: once the tick and the rebuilds for a project have finished, the
\* installed cache was gathered from the commit the checkout is at, or the
\* stale flag is set.
C27_ChangeNotLost ==
    \A p \in ProjectsInMap :
        RebuildsSettled(p)
        => (projects[p].cacheSource = repo[p].head \/ projects[p].cacheStale)

\* C29: a step that clears a set stale flag installs, in that project, the
\* cache handle created in that step; a step in which a cache creation
\* fails leaves the flag and the handle of every project as they were.
C29_ClearedOnlyByInstall ==
    [][/\ \A p \in ProjectsInMap :
             (projects[p].cacheStale /\ ~projects'[p].cacheStale)
             => (projects'[p].cachedContent = nextHandle /\ nextHandle' = nextHandle + 1)
       /\ \A r \in Reqs :
             (turns[r].pc # "failed" /\ turns'[r].pc = "failed" /\ turns'[r].error = CreateFailed)
             => \A p \in ProjectsInMap :
                   /\ projects'[p].cacheStale = projects[p].cacheStale
                   /\ projects'[p].cachedContent = projects[p].cachedContent]_vars

C29_Witness ==
    \E r \in Reqs :
        /\ turns[r].pc = "failed" /\ turns[r].error = CreateFailed /\ turns[r].createsGet = 1
        /\ projects[turns[r].pid].cacheStale
        /\ projects[turns[r].pid].cachedContent = turns[r].h0

\* Turn r's rebuild (stale- or expiry-triggered) settles successfully.
RebuildCompletes(r) ==
    \/ turns[r].pc = "refreshing" /\ turns'[r].pc = "sending"
    \/ turns[r].pc = "expiryRebuild" /\ turns'[r].pc \in {"sending", "refreshing"}

\* C30: a rebuild that settles installs the cache it created whatever other
\* rebuilds of the project have started or finished meanwhile, so with two
\* overlapping rebuilds two caches are created and the project holds the
\* one written last.
C30_LastWriterWins ==
    [][\A r \in Reqs : RebuildCompletes(r) =>
          /\ projects'[turns[r].pid].cachedContent = nextHandle
          /\ nextHandle' = nextHandle + 1]_vars

\* Both turns have rebuilt the cache of the same project, each beginning
\* before the other had installed its cache.
C30_Witness ==
    \E r1, r2 \in Reqs :
        /\ r1 # r2 /\ turns[r1].pid = turns[r2].pid
        /\ turns[r1].createsGet = 1 /\ turns[r2].createsGet = 1
        /\ turns[r1].h0 = turns[r2].h0
        /\ turns[r1].pc \in {"sending", "done"} /\ turns[r2].pc \in {"sending", "done"}
        /\ nextHandle = 5
        /\ projects[turns[r1].pid].cachedContent = 4

\* A forced refresh of turn r's project settles successfully in this step.
ForceCompletes(r) == turns[r].pc = "forceRebuild" /\ turns'[r].pc = "done"

\* C26: the step in which a forced refresh completes installs the cache
\* created in it, whether the stale flag is set or not, and leaves no
\* session of the project registered that is bound to another handle.
C26_ForcedRefreshInvalidates ==
    [][\A r \in Reqs : ForceCompletes(r) =>
          /\ projects'[turns[r].pid].cachedContent = nextHandle
          /\ nextHandle' = nextHandle + 1
          /\ \A key \in Keys :
                (key[2] = turns[r].pid /\ chatSessions'[key].oid # 0)
                => chatSessions'[key].handle = projects'[turns[r].pid].cachedContent]_vars

\* The timeout of the call elapsed while the child was running (the only
\* SIGTERM sent to a running child without a shutdown is the timeout's or
\* an overflow's, and both need the child alive).
TimedOutBeforeExit ==
    run.timedOut /\ "SIGTERM" \in run.signals /\ run.shutdownTimer = "unset"

\* C22: the promise is resolved only for a child that exited with code 0;
\* once the call has seen the child's end, a child that exited non-zero or
\* on a signal or could not be spawned has its promise rejected; a call
\* whose timeout elapsed while the child was running is never resolved, and
\* the rejection reason is "timeout" exactly for calls that timed out.
C22_Outcomes ==
    /\ run.promise = "resolved" => (child.state = "exited" /\ child.code = 0)
    /\ (run.closeSeen /\ child.state = "exited" /\ child.code # 0) => run.promise = "rejected"
    /\ (run.errorSeen /\ child.state = "nospawn") => run.promise = "rejected"
    /\ TimedOutBeforeExit => run.promise # "resolved"
    /\ run.reason = "timeout" => run.timedOut
    /\ run.reason = "exit" => ~run.timedOut

\* C23: once the shutdown handler has signalled a supervised child, its 2 s
\* timer has fired and no signal is still on its way, the child is no
\* longer running.
C23_ShutdownTerminates ==
    (run.shutdownTimer = "fired" /\ child.dying = "none") => child.state # "running"

\* C28 (every git command of a tick is bounded): while a tick waits for a
\* running child, a timer of the supervisor is armed or a signal that ends
\* the child is on its way.
C28_TickBounded ==
    \A k \in 1..MaxTicks :
        (ticks[k].status = "running" /\ child.state = "running" /\ run.promise = "pending")
        => \/ run.timeoutHandle = "armed"
           \/ run.killTimeoutHandle = "armed"
           \/ child.dying # "none"

\* The step in which an edit that changes the identifier is answered with
\* its redirect.
EditMoveCompletes ==
    /\ ops[1].kind = "edit" /\ ops[1].pc # "done" /\ ops'[1].pc = "done"
    /\ ops[1].projectId # ops[1].target

\* The step in which the conflict check turns an edit away.
EditConflictRejected ==
    /\ ops[1].kind = "edit" /\ ops[1].pc = "editLoad" /\ ops'[1].pc = "rejected"
    /\ Conflict(config, ConfigIndex(config, ops[1].target), ops[1].target,
                GenerateProjectId(ops[1].cleanUrl, ops[1].branch))

\* C24 (an edit that changes the identifier): when such an edit completes,
\* the map holds the project under the new identifier and not under the old
\* one, the stored entry has been replaced, and no session of the old
\* identifier is left; an edit turned away by the conflict check changes
\* nothing.
C24_EditMovesProject ==
    [][/\ EditMoveCompletes =>
            /\ \E q \in registry' : q.id = ops[1].projectId
            /\ \A q \in registry' : q.id # ops[1].target
            /\ \E i \in 1..Len(config') : EntryId(config'[i]) = ops[1].projectId
            /\ \A k \in sessionKeys' : k[2] # ops[1].target
       /\ EditConflictRejected =>
            UNCHANGED <<config, registry, checkouts, sessionKeys>>]_vars

\* The interval timer of cleanupOldSessions fires in this step.
SweepRuns == clock'.sweeps = clock.sweeps + 1

\* C21 (session expiry): a sweep removes exactly the sessions last used more
\* than SESSION_MAX_AGE before it and leaves every other session as it was;
\* every get-or-create sets the last-used time of the session it returns to
\* the current time.
C21_SweepEvictsOld ==
    [][/\ SweepRuns =>
            \A key \in Keys :
                IF /\ chatSessions[key].oid # 0
                   /\ clock.now - chatSessions[key].lastUsed > SESSION_MAX_AGE
                THEN chatSessions'[key].oid = 0
                ELSE chatSessions'[key] = chatSessions[key]
       /\ \A r \in Reqs :
            GetsSession(r) => chatSessions'[TurnKey(turns'[r])].lastUsed = clock.now]_vars

\* A sweep has evicted the session of one request, and the session of
\* another, last used exactly SESSION_MAX_AGE ago, is still registered.
C21_Witness ==
    /\ clock.sweeps > 0
    /\ \E r1, r2 \in Reqs :
        /\ turns[r1].sends = 1 /\ chatSessions[TurnKey(turns[r1])].oid = 0
        /\ turns[r2].sends = 1 /\ chatSessions[TurnKey(turns[r2])].oid = turns[r2].cur
        /\ turns[r2].cur # 0
        /\ chatSessions[TurnKey(turns[r2])].lastUsed <= SESSION_MAX_AGE
        /\ clock.now - chatSessions[TurnKey(turns[r2])].lastUsed = SESSION_MAX_AGE

\* The first send of turn r is rejected in this step with an error that is
\* not a 403 carrying one of the two cache messages.
FirstSendFailsOtherwise(r) ==
    /\ turns[r].pc = "sending" /\ turns[r].attempt = 1
    /\ turns'[r].pc \notin {"sending", "done"}
    /\ ~(/\ turns'[r].error.status = 403
         /\ turns'[r].error.msg \in {"CachedContent not found", "permission denied"})

\* C31 (errors that are not expiry-shaped): in the step in which the first
\* send of a turn fails with such an error the turn fails with that error,
\* no cache is created, no project field and no session changes, no further
\* send is started; a failed turn never moves again.
C31_OtherErrorsPropagate ==
    [][\A r \in Reqs :
          /\ FirstSendFailsOtherwise(r) =>
                /\ turns'[r].pc = "failed"
                /\ turns'[r].error \in Errors
                /\ turns'[r].sends = turns[r].sends
                /\ turns'[r].creates = turns[r].creates
                /\ turns'[r].rebuilds = turns[r].rebuilds
                /\ projects' = projects
                /\ nextHandle' = nextHandle
                /\ chatSessions' = chatSessions
          /\ turns[r].pc = "failed" => turns'[r] = turns[r]]_vars

\* A turn whose only send was rejected with a 403 that is no cache error has
\* failed with it, while the session it used is still registered.
C31_Witness ==
    \E r \in Reqs :
        /\ turns[r].pc = "failed" /\ turns[r].attempt = 1 /\ turns[r].sends = 1
        /\ turns[r].error = [status |-> 403, msg |-> "quota"]
        /\ turns[r].creates = 0
        /\ chatSessions[TurnKey(turns[r])].oid = turns[r].cur
        /\ turns[r].cur # 0

\* The moves from one git step of a project to the next that the order of
\* the claim allows, for a project with and without a token.
StepOrder(p) ==
    IF p = "p1"
    THEN {<<"rewrite", "fetch">>, <<"fetch", "revHead">>, <<"revHead", "revOrigin">>,
          <<"revOrigin", "pullRewrite">>, <<"pullRewrite", "pull">>}
    ELSE {<<"fetch", "revHead">>, <<"revHead", "revOrigin">>, <<"revOrigin", "pull">>}
FirstStep(p) == IF p = "p1" THEN "rewrite" ELSE "fetch"

\* C32 (order of the steps of a tick): a tick takes up each project at its
\* first step (the remote rewrite when a token is configured, else the
\* fetch), moves within a project only along rewrite, fetch, rev-parse HEAD,
\* rev-parse origin, (rewrite,) pull, leaves the comparison for the pull only
\* when the two commits differ, and the fields of a project are written only
\* by the step in which its pull succeeds, which sets lastUpdated and
\* cacheStale.
C32_TickOrder ==
    [][/\ \A k \in 1..MaxTicks :
            LET t == ticks[k]
                u == ticks'[k]
            IN  /\ (t.status # "running" /\ u.status = "running")
                   => (u.idx = 1 /\ u.stage = FirstStep(order[1]))
                /\ (t.status = "running" /\ u.status = "running" /\ u # t)
                   => IF u.idx = t.idx
                      THEN /\ <<t.stage, u.stage>> \in StepOrder(order[t.idx])
                           /\ t.stage = "revOrigin"
                              => t.localCommit # repo[order[t.idx]].origin
                      ELSE /\ u.idx = t.idx + 1
                           /\ u.stage = FirstStep(order[u.idx])
                           /\ t.stage \in {"fetch", "revHead", "revOrigin", "pull"}
                /\ (t.status = "running" /\ u.status = "done")
                   => (t.idx = Len(order) /\ t.stage \in {"fetch", "revHead", "revOrigin", "pull"})
       /\ \A p \in Proj :
            projects'[p] # projects[p]
            => \E k \in 1..MaxTicks :
                  /\ ticks[k].status = "running" /\ ticks[k].stage = "pull"
                  /\ order[ticks[k].idx] = p
                  /\ repo'[p].head = repo[p].upstream /\ repo[p].head # repo[p].upstream
                  /\ projects'[p].lastUpdated = k
                  /\ projects'[p].cacheStale
                  /\ projects'[p].cachedContent = projects[p].cachedContent]_vars

\* A tick has gone through every step for the project with a token, pulled
\* it and marked it, and has found nothing to pull for the other project.
C32_Witness ==
    /\ hist.tick # 0 /\ ticks[hist.tick].status = "done"
    /\ "p1" \in hist.pullTried /\ "p1" \in hist.wrote
    /\ projects["p1"].cacheStale /\ projects["p1"].lastUpdated = hist.tick
    /\ "p2" \in hist.visited /\ "p2" \notin hist.pullTried
    /\ hist.failed = [p \in Proj |-> {}]

\* The edit request calls clearSessionsForProject in this step.
ClearsSessions == ops[1].kind = "edit" /\ ~ops[1].wrote /\ ops'[1].wrote

\* C33 (invalidating the sessions of a project): the step that clears the
\* sessions of project P removes every session whose key has P as its
\* project component, whatever its client and mode, and no other session.
C33_InvalidateForProject ==
    [][ClearsSessions =>
          /\ \A k \in sessionKeys : k[2] = ops[1].target => k \notin sessionKeys'
          /\ \A k \in sessionKeys : k[2] # ops[1].target => k \in sessionKeys'
          /\ sessionKeys' \subseteq sessionKeys]_vars

\* An edit has cleared the four sessions two clients held on its project in
\* both modes, and the four they hold on the other project are registered.
C33_Witness ==
    /\ ops[1].kind = "edit" /\ ops[1].wrote
    /\ ops[1].cleared = 4
    /\ Cardinality({k \in sessionKeys : k[2] # ops[1].target}) = 4
    /\ \A k \in sessionKeys : k[2] # ops[1].target

\* Turn r is answered in this step, and fails in this step.
TurnSucceeds(r) == turns[r].pc # "done" /\ turns'[r].pc = "done"
TurnFails(r) == turns[r].pc # "failed" /\ turns'[r].pc = "failed"
\* The user entry and the model entry of turn r.
TurnEntries(r) ==
    <<[role |-> "user", message |-> r], [role |-> "model", message |-> turns'[r].result]>>

\* C34 (append-only transcript): while a session stays registered its
\* transcript is left as it is or extended by the user entry and the model
\* entry of a turn answered in that step; a step in which a turn fails
\* changes no transcript; a turn that is answered while the session it was
\* handed is registered extends that session's transcript by its two
\* entries.
C34_TranscriptGrows ==
    [][/\ \A key \in Keys :
            (chatSessions[key].oid # 0 /\ chatSessions'[key].oid = chatSessions[key].oid)
            => \/ chatSessions'[key].history = chatSessions[key].history
               \/ \E r \in Reqs :
                     /\ TurnSucceeds(r) /\ TurnKey(turns[r]) = key
                     /\ chatSessions'[key].history =
                            chatSessions[key].history \o TurnEntries(r)
       /\ \A r \in Reqs :
            /\ TurnFails(r) =>
                  \A key \in Keys : chatSessions'[key].history = chatSessions[key].history
            /\ (TurnSucceeds(r) /\ chatSessions[TurnKey(turns[r])].oid = turns[r].oid)
               => chatSessions'[TurnKey(turns[r])].history =
                      chatSessions[TurnKey(turns[r])].history \o TurnEntries(r)]_vars

\* Two turns have been answered through one session, whose transcript holds
\* the entries of the one followed by the entries of the other.
C34_Witness ==
    \E r1, r2 \in Reqs, key \in Keys :
        /\ r1 # r2
        /\ turns[r1].pc = "done" /\ turns[r2].pc = "done"
        /\ TurnKey(turns[r1]) = key /\ TurnKey(turns[r2]) = key
        /\ Len(chatSessions[key].history) = 4
        /\ chatSessions[key].history[1] = [role |-> "user", message |-> r1]
        /\ chatSessions[key].history[2].role = "model"
        /\ chatSessions[key].history[3] = [role |-> "user", message |-> r2]
        /\ chatSessions[key].history[4].role = "model"

\* C36 (an answered turn is in the registered transcript): in the step in
\* which a turn is answered, the session registered under the turn's key
\* ends its transcript with the user entry and the model entry of that turn.
C36_TurnRecorded ==
    [][\A r \in Reqs :
          TurnSucceeds(r) =>
              LET s == chatSessions'[TurnKey(turns[r])] IN
              /\ s.oid # 0
              /\ Len(s.history) >= 2
              /\ SubSeq(s.history, Len(s.history) - 1, Len(s.history)) = TurnEntries(r)]_vars

\* C35 (failed clone of an edit): a step of an edit request whose new
\* checkout does not exist after the step, the step in which its clone
\* fails included, leaves projects.json, the project map with the fields of
\* its projects, and the session registry as they are.
C35_FailedCloneChangesNothing ==
    [][(/\ ops' # ops
        /\ ops'[1].kind = "edit"
        /\ ops'[1].projectId # ops'[1].target
        /\ ops'[1].projectId \notin checkouts')
       => UNCHANGED <<config, registry, sessionKeys>>]_vars

\* An edit to another identifier has been answered with 500 after its clone
\* failed; the project is in the map and in projects.json under its old
\* identifier and a session of it is registered.
C35_Witness ==
    /\ ops[1].kind = "edit" /\ ops[1].pc = "rejected" /\ ops[1].http = 500
    /\ ops[1].cloned /\ ~ops[1].wrote
    /\ ops[1].projectId # ops[1].target
    /\ ops[1].projectId \notin checkouts
    /\ \E q \in registry : q.id = ops[1].target
    /\ \E i \in 1..Len(config) : EntryId(config[i]) = ops[1].target
    /\ \E k \in sessionKeys : k[2] = ops[1].target

\* C37 (projects.json and the project map agree): once the server serves
\* and every add, remove or edit request that was started has been answered,
\* the identifiers of the entries of projects.json are the identifiers in
\* the project map.
C37_ConfigMatchesMap ==
    (/\ boot.phase = "serving"
     /\ \A o \in Ops : ops[o].pc \in {"idle", "done", "rejected"})
    => {EntryId(config[i]) : i \in 1..Len(config)} = {q.id : q \in registry}

\* C38 (no session without its project): while the server serves, every
\* registered session is keyed to a project that is in the project map.
C38_SessionsHaveProject ==
    boot.phase = "serving" => \A k \in sessionKeys : \E q \in registry : q.id = k[2]

\* A cache rebuild that request r waited for is installed in this step.
AnyRebuildCompletes(r) ==
    /\ turns[r].pc \in {"refreshing", "expiryRebuild", "forceRebuild"}
    /\ turns'[r].pc # turns[r].pc
    /\ turns'[r].pc # "failed"

\* C39 (a rebuild clears the stale flag): after the step in which a rebuild
\* of a project's cache is installed, whatever triggered it, the project's
\* stale flag is clear.
C39_RebuildClearsStale ==
    [][\A r \in Reqs :
          AnyRebuildCompletes(r) => ~projects'[turns[r].pid].cacheStale]_vars

\* C40 (the promise settles once): once the promise of a call has been
\* resolved or rejected, no event changes the outcome or its reason or puts
\* the child into the supervised set; a settled call has marked itself
\* resolved and its child is not supervised.
C40_SettlesOnce ==
    [][run.promise # "pending" =>
          /\ run'.promise = run.promise
          /\ run'.reason = run.reason
          /\ run'.resolved
          /\ "c1" \notin activeGitProcesses']_vars

\* A call was rejected for an output overflow, and the close event of its
\* child, which ended with code 0, has arrived since.
C40_Witness ==
    /\ run.promise = "rejected" /\ run.reason = "overflow"
    /\ run.closeSeen
    /\ child.state = "exited" /\ child.code = 0
    /\ "c1" \notin activeGitProcesses

====
